---- MODULE Spec2Model ----
(***************************************************************************)
(* Ranking and itinerary engine of src/backend/backend2.py.                *)
(*                                                                         *)
(* Representation of the Python values:                                    *)
(*   - the numbers of a request and of a candidate are decimals, kept as   *)
(*     integers: money in mills (1/1000 GBP), distance_km_from_center and  *)
(*     preferred_radius_km in units of 0.1 km, a rating in tenths          *)
(*     (47 = 4.7); Gbp, Km and Stars give the Python float of each;        *)
(*   - every number the program computes (cost, component, score, total)   *)
(*     is a binary64 float, computed with the roundings of the program's   *)
(*     operations; two inputs of one unit, or an input and a constant that *)
(*     is a float exactly (1.0, 4.5), are compared as integers;            *)
(*   - an Optional[...] number that is None is NoneVal;                    *)
(*   - an ISO timestamp is a record [present, day, min, aware]: the day    *)
(*     number, the minute of that day and whether it carries a UTC offset; *)
(*   - a Location is a latitude offset, in 0.001 degree, from latitude     *)
(*     55.858 on the meridian -4.259 of the default center;                *)
(*   - an "HH:MM" string is the pair <<HH, MM>>.                           *)
(***************************************************************************)
EXTENDS Integers, Sequences, FiniteSets, TLC

\* ------------------------------------------------------------------ bounds
MaxCands == 4
MaxCalls == 2

NoneVal == -1

\* ------------------------------------------------ natural numbers of any size
\* A natural number is the sequence of its digits in base Base, the lowest
\* digit first, without a zero as its highest digit; <<>> is 0.
Base == 32768

DigitBits == 15

Abs(x) == IF x < 0 THEN -x ELSE x

RECURSIVE BigOf(_)
BigOf(n) == IF n = 0 THEN <<>> ELSE <<n % Base>> \o BigOf(n \div Base)

RECURSIVE IntOf(_)
IntOf(a) == IF a = <<>> THEN 0 ELSE a[1] + Base * IntOf(Tail(a))

RECURSIVE Trim(_)
\* a without the zeros at its high end
Trim(a) == IF a = <<>> \/ a[Len(a)] # 0 THEN a ELSE Trim(SubSeq(a, 1, Len(a) - 1))

Digit(a, i) == IF i <= Len(a) THEN a[i] ELSE 0

RECURSIVE AddFrom(_, _, _, _)
AddFrom(a, b, i, carry) ==
    IF i > Len(a) /\ i > Len(b)
    THEN (IF carry = 0 THEN <<>> ELSE <<carry>>)
    ELSE <<(Digit(a, i) + Digit(b, i) + carry) % Base>>
             \o AddFrom(a, b, i + 1, (Digit(a, i) + Digit(b, i) + carry) \div Base)

BigAdd(a, b) == AddFrom(a, b, 1, 0)

RECURSIVE SubFrom(_, _, _, _)
SubFrom(a, b, i, borrow) ==
    IF i > Len(a) THEN <<>>
    ELSE <<(a[i] - Digit(b, i) - borrow + Base) % Base>>
             \o SubFrom(a, b, i + 1, IF a[i] - Digit(b, i) - borrow < 0 THEN 1 ELSE 0)

\* a - b for a >= b
BigSub(a, b) == Trim(SubFrom(a, b, 1, 0))

RECURSIVE CmpFrom(_, _, _)
\* -1, 0, 1 as the digits i..1 of a are below, equal to, above those of b
CmpFrom(a, b, i) ==
    IF i = 0 THEN 0
    ELSE IF a[i] # b[i] THEN (IF a[i] < b[i] THEN -1 ELSE 1)
    ELSE CmpFrom(a, b, i - 1)

\* -1, 0, 1 as a < b, a = b, a > b
BigCmp(a, b) ==
    IF Len(a) # Len(b) THEN (IF Len(a) < Len(b) THEN -1 ELSE 1)
    ELSE CmpFrom(a, b, Len(a))

RECURSIVE MulSmallFrom(_, _, _, _)
MulSmallFrom(a, k, i, carry) ==
    IF i > Len(a) THEN (IF carry = 0 THEN <<>> ELSE <<carry>>)
    ELSE <<(a[i] * k + carry) % Base>>
             \o MulSmallFrom(a, k, i + 1, (a[i] * k + carry) \div Base)

\* a * k for 0 <= k < Base
BigMulSmall(a, k) == IF k = 0 THEN <<>> ELSE MulSmallFrom(a, k, 1, 0)

\* p + rest * Base
AddShifted(p, rest) == IF rest = <<>> THEN p ELSE BigAdd(p, <<0>> \o rest)

RECURSIVE MulFrom(_, _, _)
\* a times the digits i and above of b
MulFrom(a, b, i) ==
    IF i > Len(b) THEN <<>>
    ELSE AddShifted(BigMulSmall(a, b[i]), MulFrom(a, b, i + 1))

BigMul(a, b) == IF Len(a) < Len(b) THEN MulFrom(b, a, 1) ELSE MulFrom(a, b, 1)

\* a * 2^k
BigShl(a, k) ==
    IF k = 0 \/ a = <<>> THEN a
    ELSE [i \in 1..(k \div DigitBits) |-> 0]
             \o [i \in 1..Len(a) |->
                    ((a[i] * 2 ^ (k % DigitBits)) % Base)
                        + (IF i = 1 THEN 0
                           ELSE a[i - 1] \div 2 ^ (DigitBits - (k % DigitBits)))]
             \o (IF a[Len(a)] \div 2 ^ (DigitBits - (k % DigitBits)) = 0 THEN <<>>
                 ELSE <<a[Len(a)] \div 2 ^ (DigitBits - (k % DigitBits))>>)

\* a \div 2^k
BigShr(a, k) ==
    IF k = 0 THEN a
    ELSE <<>> \o [i \in 1..(IF k \div DigitBits >= Len(a) THEN 0
                            ELSE IF a[Len(a)] \div 2 ^ (k % DigitBits) = 0
                            THEN Len(a) - k \div DigitBits - 1
                            ELSE Len(a) - k \div DigitBits) |->
                    (a[k \div DigitBits + i] \div 2 ^ (k % DigitBits))
                        + (Digit(a, k \div DigitBits + i + 1) % 2 ^ (k % DigitBits))
                              * 2 ^ (DigitBits - (k % DigitBits))]

\* the binary digit of n that counts 2^k
BitAt(n, k) == (Digit(n, k \div DigitBits + 1) \div 2 ^ (k % DigitBits)) % 2

RECURSIVE Bits(_)
\* the number of binary digits of a digit
Bits(x) ==
    IF x >= 256 THEN 8 + Bits(x \div 256)
    ELSE IF x >= 16 THEN 4 + Bits(x \div 16)
    ELSE IF x >= 4 THEN 2 + Bits(x \div 4)
    ELSE IF x >= 2 THEN 2 ELSE x

BitLen(a) == IF a = <<>> THEN 0 ELSE DigitBits * (Len(a) - 1) + Bits(a[Len(a)])

RECURSIVE TrailingZeroBits(_)
\* the number of zero binary digits at the low end of a digit x > 0
TrailingZeroBits(x) ==
    IF x % 256 = 0 THEN 8 + TrailingZeroBits(x \div 256)
    ELSE IF x % 16 = 0 THEN 4 + TrailingZeroBits(x \div 16)
    ELSE IF x % 4 = 0 THEN 2 + TrailingZeroBits(x \div 4)
    ELSE IF x % 2 = 0 THEN 1 ELSE 0

RECURSIVE TrailingZeros(_)
\* the number of zero binary digits at the low end of a > 0
TrailingZeros(a) ==
    IF a[1] # 0 THEN TrailingZeroBits(a[1]) ELSE DigitBits + TrailingZeros(Tail(a))

RECURSIVE FixDown(_, _, _)
\* the largest q' <= q with d * q' <= r
FixDown(r, d, q) ==
    IF BigCmp(BigMulSmall(d, q), r) > 0 THEN FixDown(r, d, q - 1) ELSE q

\* r \div d for r < d * Base, the highest digit of d being at least Base / 2:
\* estimated from the two highest digits of r, then corrected
QuotDigit(r, d) ==
    FixDown(r, d,
            IF Len(r) < Len(d) THEN 0
            ELSE IF Len(r) = Len(d) THEN r[Len(d)] \div d[Len(d)]
            ELSE IF (r[Len(d) + 1] * Base + r[Len(d)]) \div d[Len(d)] > Base - 1
            THEN Base - 1
            ELSE (r[Len(d) + 1] * Base + r[Len(d)]) \div d[Len(d)])

\* the quotient digit q put above the quotient of the lower digits
PutDigit(rest, q) == <<Append(rest[1], q), rest[2]>>

RECURSIVE DivFrom(_, _, _, _)
\* one step of the long division: q is the quotient digit of cur
DivDigit(a, d, i, cur, q) ==
    IF q = 0 THEN PutDigit(DivFrom(a, d, i - 1, cur), 0)
    ELSE PutDigit(DivFrom(a, d, i - 1, BigSub(cur, BigMulSmall(d, q))), q)

\* long division: the digits i..1 of a are still to bring down, r is the
\* remainder of the digits above
DivFrom(a, d, i, r) ==
    IF i = 0 THEN <<<<>>, r>>
    ELSE DivDigit(a, d, i, Trim(<<a[i]>> \o r), QuotDigit(Trim(<<a[i]>> \o r), d))

\* the quotient without the zeros at its high end, the remainder \div 2^sh
Unshift(res, sh) == <<Trim(res[1]), BigShr(res[2], sh)>>

\* <<num \div d, (num % d) \div 2^sh>> for d with its highest digit at least
\* Base / 2
LongDiv(num, d, sh) ==
    Unshift(DivFrom(num, d, Len(num) - Len(d) + 1,
                    SubSeq(num, Len(num) - Len(d) + 2, Len(num))),
            sh)

\* <<a \div d, a % d>> for d > 0: both are shifted to bring the highest digit
\* of d to Base / 2 or above
BigDivMod(a, d) ==
    IF Len(a) < Len(d) THEN <<<<>>, a>>
    ELSE LongDiv(BigShl(a, DigitBits - Bits(d[Len(d)])),
                 BigShl(d, DigitBits - Bits(d[Len(d)])),
                 DigitBits - Bits(d[Len(d)]))

\* ------------------------------------------------- binary floating point
\* A Python float (IEEE 754 binary64) is the record [s, m, e] of the value
\* s * m * 2^e: s is 1 or -1, m an odd natural number below 2^53, or 0 with
\* s = 1 and e = 0.  Every operation gives the float nearest to the exact
\* result, ties to the even mantissa.  Values outside the exponent range of
\* binary64 (above 1.8e308, below 2.2e-308) do not occur.
Precision == 53

FZero == [s |-> 1, m |-> <<>>, e |-> 0]

\* the record of s * m * 2^e for m below 2^53
Canon(s, m, e) ==
    IF m = <<>> THEN FZero
    ELSE [s |-> s, m |-> BigShr(m, TrailingZeros(m)), e |-> e + TrailingZeros(m)]

\* whether the k lowest binary digits of n are zero
LowBitsZero(n, k) ==
    /\ \A i \in 1..Len(n) : i <= k \div DigitBits => n[i] = 0
    /\ Digit(n, k \div DigitBits + 1) % 2 ^ (k % DigitBits) = 0

\* the natural number nearest to n / 2^k, ties to even
RoundShift(n, k) ==
    IF k = 0 THEN n
    ELSE IF BitAt(n, k - 1) = 1 /\ (BitAt(n, k) = 1 \/ ~LowBitsZero(n, k - 1))
    THEN BigAdd(BigShr(n, k), <<1>>)
    ELSE BigShr(n, k)

\* the number of binary digits of n above Precision
Excess(n) == IF BitLen(n) <= Precision THEN 0 ELSE BitLen(n) - Precision

\* the float nearest to s * n * 2^e
Nearest(s, n, e) == Canon(s, RoundShift(n, Excess(n)), e + Excess(n))

\* float(n) of an int
FInt(n) == Canon(IF n < 0 THEN -1 ELSE 1, BigOf(Abs(n)), 0)

FOne == FInt(1)

FNeg(x) == IF x.m = <<>> THEN x ELSE [x EXCEPT !.s = -x.s]

\* -1, 0, 1 as |x| < |y|, |x| = |y|, |x| > |y|
MagCmp(x, y) ==
    IF x.m = <<>> \/ y.m = <<>>
    THEN (IF x.m = y.m THEN 0 ELSE IF x.m = <<>> THEN -1 ELSE 1)
    ELSE IF BitLen(x.m) + x.e # BitLen(y.m) + y.e
    THEN (IF BitLen(x.m) + x.e < BitLen(y.m) + y.e THEN -1 ELSE 1)
    ELSE IF x.e <= y.e
    THEN BigCmp(x.m, BigShl(y.m, y.e - x.e))
    ELSE BigCmp(BigShl(x.m, x.e - y.e), y.m)

FLt(x, y) == IF x.s # y.s THEN x.s < y.s ELSE x.s * MagCmp(x, y) < 0

FLe(x, y) == ~FLt(y, x)

\* min(x, y) and max(x, y) of Python: the first argument unless the second
\* is smaller, respectively greater
FMin(x, y) == IF FLt(y, x) THEN y ELSE x

FMax(x, y) == IF FLt(x, y) THEN y ELSE x

\* the float nearest to xs * a * 2^e + ys * b * 2^e
AddAligned(xs, a, ys, b, e) ==
    Nearest(IF xs = ys \/ BigCmp(a, b) >= 0 THEN xs ELSE ys,
            IF xs = ys THEN BigAdd(a, b)
            ELSE IF BigCmp(a, b) >= 0 THEN BigSub(a, b)
            ELSE BigSub(b, a),
            e)

FAdd(x, y) ==
    IF x.m = <<>> THEN y
    ELSE IF y.m = <<>> THEN x
    ELSE AddAligned(x.s, BigShl(x.m, IF x.e <= y.e THEN 0 ELSE x.e - y.e),
                    y.s, BigShl(y.m, IF x.e <= y.e THEN y.e - x.e ELSE 0),
                    IF x.e <= y.e THEN x.e ELSE y.e)

FSub(x, y) == FAdd(x, FNeg(y))

FMul(x, y) ==
    IF x.m = <<>> \/ y.m = <<>> THEN FZero
    ELSE Nearest(x.s * y.s, BigMul(x.m, y.m), x.e + y.e)

\* the float nearest to s * n * 2^e for n = 2 * qr[1], plus a fraction when
\* the division left the remainder qr[2]
DivRound(s, qr, e) ==
    Nearest(s, BigAdd(BigShl(qr[1], 1), IF qr[2] = <<>> THEN <<>> ELSE <<1>>), e)

\* x / y from the quotient of x.m * 2^k by y.m
DivScaled(x, y, k) ==
    DivRound(x.s * y.s, BigDivMod(BigShl(x.m, k), y.m), x.e - y.e - k - 1)

\* x / y for y # 0: the quotient of the mantissas to 55 binary digits or
\* more, with one more digit that tells whether the division left a remainder
FDiv(x, y) ==
    IF x.m = <<>> THEN FZero
    ELSE DivScaled(x, y, IF Precision + 2 + BitLen(y.m) > BitLen(x.m)
                         THEN Precision + 2 + BitLen(y.m) - BitLen(x.m)
                         ELSE 0)

\* the float of the decimal literal or JSON number n / d
Float(n, d) == FDiv(FInt(n), FInt(d))

\* int(x) for x >= 0
FloorInt(x) == IF x.e >= 0 THEN IntOf(BigShl(x.m, x.e)) ELSE IntOf(BigShr(x.m, -x.e))

\* the integer nearest to x * 10^ndigits, ties of the exact value to even,
\* for x >= 0
RoundScaled(x, ndigits) ==
    IF x.e >= 0 THEN IntOf(BigShl(BigMul(x.m, BigOf(10 ^ ndigits)), x.e))
    ELSE IntOf(RoundShift(BigMul(x.m, BigOf(10 ^ ndigits)), -x.e))

\* round(x, ndigits) for x >= 0: the float of the decimal nearest to x
FRound(x, ndigits) == Float(RoundScaled(x, ndigits), 10 ^ ndigits)

\* the floats of the decimals of a request and of a candidate
Gbp(mills) == Float(mills, 1000)

Km(tenths) == Float(tenths, 10)

Stars(tenths) == Float(tenths, 10)

\* the decimal literals of the source as floats
F0_2 == Float(2, 10)

F0_3 == Float(3, 10)

F0_5 == Float(5, 10)

F0_6 == Float(6, 10)

F0_7 == Float(7, 10)

F0_75 == Float(75, 100)

F0_8 == Float(8, 10)

F0_85 == Float(85, 100)

F1_1 == Float(11, 10)

F1_2 == Float(12, 10)

F1_5 == Float(15, 10)

\* ------------------------------------------------------- configuration data
WeightKeys == <<"mood", "price", "rating", "group", "distance", "weather">>

WEIGHTS ==
    [mood |-> 30, price |-> 20, rating |-> 15, group |-> 15,
     distance |-> 10, weather |-> 10]

PRICE_TIER_MAP == (1 :> 8) @@ (2 :> 12) @@ (3 :> 20) @@ (4 :> 35)

MOOD_CATEGORY_MAP ==
    ("karaoke" :> {"karaoke", "bar", "private-rooms", "singing"}) @@
    ("fun" :> {"karaoke", "arcade", "bowling", "darts", "pub-quiz", "bar", "pub"}) @@
    ("chill" :> {"cocktail", "wine-bar", "gastropub", "cafe", "lounge"}) @@
    ("competitive" :> {"bowling", "darts", "escape-room", "quiz", "pool", "games"}) @@
    ("live-music" :> {"live-music", "concert", "gig", "music-venue"}) @@
    ("culture" :> {"museum", "gallery", "theatre", "comedy", "art"})

\* each slot is the list of its alternatives (slot.split("|"))
ITINERARY_TEMPLATES ==
    ("karaoke" :> <<<<"bar">>, <<"karaoke">>, <<"bar">>>>) @@
    ("fun" :> <<<<"bar">>, <<"arcade", "bowling", "darts">>, <<"bar">>>>) @@
    ("competitive" :> <<<<"bar">>, <<"bowling", "darts", "escape-room", "quiz">>,
                        <<"bar">>>>) @@
    ("chill" :> <<<<"gastropub", "restaurant">>, <<"live-music", "comedy">>,
                  <<"cocktail", "dessert">>>>) @@
    ("live-music" :> <<<<"bar">>, <<"live-music", "concert">>, <<"bar">>>>) @@
    ("culture" :> <<<<"cafe">>, <<"museum", "gallery", "theatre", "comedy">>, <<"bar">>>>)

DWELL_TIMES ==
    ("bar" :> <<60, 75>>) @@ ("pub" :> <<60, 75>>) @@ ("karaoke" :> <<75, 90>>) @@
    ("bowling" :> <<60, 90>>) @@ ("darts" :> <<60, 90>>) @@
    ("escape-room" :> <<60, 75>>) @@ ("quiz" :> <<90, 120>>) @@
    ("arcade" :> <<45, 75>>) @@ ("restaurant" :> <<75, 90>>) @@
    ("gastropub" :> <<75, 90>>) @@ ("cafe" :> <<45, 60>>) @@
    ("cocktail" :> <<60, 75>>) @@ ("live-music" :> <<90, 120>>) @@
    ("concert" :> <<90, 150>>) @@ ("gig" :> <<90, 120>>) @@
    ("comedy" :> <<75, 105>>) @@ ("museum" :> <<60, 90>>) @@
    ("gallery" :> <<45, 75>>) @@ ("theatre" :> <<120, 180>>) @@
    ("default" :> <<60, 75>>)

UpperCase == "ABCDEFGHIJKLMNOPQRSTUVWXYZ"

LowerCase == "abcdefghijklmnopqrstuvwxyz"

\* str.lower() of a string of one character
LowerChar(ch) ==
    LET at == {i \in 1..Len(UpperCase) : SubSeq(UpperCase, i, i) = ch}
    IN  IF at = {} THEN ch
        ELSE SubSeq(LowerCase, CHOOSE i \in at : TRUE, CHOOSE i \in at : TRUE)

RECURSIVE lower(_)
\* str.lower()
lower(str) == IF str = "" THEN "" ELSE LowerChar(Head(str)) \o lower(Tail(str))

\* mood.lower(), the string looked up in the two mood tables
MoodKey(mood) == lower(mood)

MoodKeys == DOMAIN MOOD_CATEGORY_MAP

\* ------------------------------------------------------ utility functions
Range(s) == {s[i] : i \in 1..Len(s)}

\* great-circle distance between two points of one meridian, d steps of
\* 0.001 degree apart: R * dlat = d * 6371 km * pi / 180000, which is
\* d * 111194.9266446 mm, to the nearest millimetre
haversine_distance(loc1, loc2) ==
    LET d == Abs(loc1 - loc2)
    IN  d * 111194 + (d * 9266 + (d * 446 + 5000000) \div 1000) \div 10000

\* int(dist_km * 12)
WalkMinutes(loc1, loc2) == (haversine_distance(loc1, loc2) * 12) \div 1000000

parse_time(time_str) == time_str[1] * 60 + time_str[2]

minutes_to_time(minutes) == <<(minutes \div 60) % 24, minutes % 60>>

Weekdays == <<"Sat", "Sun", "Mon", "Tue", "Wed", "Thu", "Fri">>

\* day 0 is Saturday 2025-11-15
get_weekday(date) == Weekdays[(date % 7) + 1]

time_overlaps(start1, end1, start2, end2) == start1 < end2 /\ start2 < end1

\* ----------------------------------------------------- filtering functions
NoStamp == [present |-> FALSE, day |-> 0, min |-> 0, aware |-> FALSE]

Stamp(d, m, a) == [present |-> TRUE, day |-> d, min |-> m, aware |-> a]

\* minutes since midnight of day 0 of a timestamp
AbsMin(t) == t.day * 1440 + t.min

\* is_time_compatible raises: datetime.replace(hour=end_min//60) is a
\* ValueError when the hour is above 23, and comparing an offset-aware
\* timestamp with the naive request time is a TypeError
TimeCompatibleRaises(candidate, date, start_min, end_min) ==
    /\ candidate.type = "event"
    /\ candidate.start.present /\ candidate.end.present
    /\ \/ start_min \div 60 > 23
       \/ end_min \div 60 > 23
       \/ candidate.start.aware
       \/ /\ AbsMin(candidate.start) < date * 1440 + end_min
          /\ candidate.end.aware

\* mutant: a block that closes after midnight is not extended
is_time_compatible_same_day(candidate, date, start_min, end_min) ==
    IF candidate.type = "event"
    THEN IF ~candidate.start.present \/ ~candidate.end.present
         THEN FALSE
         ELSE /\ AbsMin(candidate.start) < date * 1440 + end_min
              /\ AbsMin(candidate.end) > date * 1440 + start_min
    ELSE IF get_weekday(date) \in DOMAIN candidate.open_hours
         THEN LET blocks == candidate.open_hours[get_weekday(date)]
              IN  \E k \in 1..Len(blocks) :
                      LET block_start == blocks[k][1]
                          block_end == blocks[k][2]
                      IN  time_overlaps(start_min, end_min, block_start, block_end)
         ELSE TRUE

is_time_compatible(candidate, date, start_min, end_min) ==
    IF candidate.type = "event"
    THEN IF ~candidate.start.present \/ ~candidate.end.present
         THEN FALSE
         ELSE /\ AbsMin(candidate.start) < date * 1440 + end_min
              /\ AbsMin(candidate.end) > date * 1440 + start_min
    ELSE IF get_weekday(date) \in DOMAIN candidate.open_hours
         THEN LET blocks == candidate.open_hours[get_weekday(date)]
              IN  \E k \in 1..Len(blocks) :
                      LET block_start == blocks[k][1]
                          block_end == IF blocks[k][2] < blocks[k][1]
                                       THEN blocks[k][2] + 24 * 60
                                       ELSE blocks[k][2]
                      IN  time_overlaps(start_min, end_min, block_start, block_end)
         ELSE TRUE

\* mutant: the soft band reaches to twice the preferred radius
soft_radius_filter_keeps_wide(c, preferred_km) ==
    FLe(Km(c.distance), FMul(Km(preferred_km), FInt(2)))

\* c.distance_km_from_center <= preferred_km * 1.5
soft_radius_filter_keeps(c, preferred_km) ==
    FLe(Km(c.distance), FMul(Km(preferred_km), F1_5))

\* mutant: the slice keeps one item too many
TruncateOneMore(list, n) ==
    SubSeq(list, 1, IF n + 1 < Len(list) THEN n + 1 ELSE Len(list))

\* the slice list[:n]: ranked[:user.max_results], reasons[:4], reasons[:3]
Truncate(list, n) ==
    IF n >= 0
    THEN SubSeq(list, 1, IF n < Len(list) THEN n ELSE Len(list))
    ELSE SubSeq(list, 1, Len(list) + n)

\* ------------------------------------------------------------------ scoring
FMaxOf(S) == CHOOSE x \in S : \A y \in S : FLe(y, x)

mood_match(user_moods, categories) ==
    IF user_moods = <<>>
    THEN F0_6
    ELSE LET max_match ==
                 FMaxOf({FZero} \cup
                     {FMin(FOne,
                           FDiv(FInt(Cardinality(Range(categories)
                                         \cap MOOD_CATEGORY_MAP[MoodKey(user_moods[i])])),
                                FInt(IF MOOD_CATEGORY_MAP[MoodKey(user_moods[i])] = {} THEN 1
                                     ELSE Cardinality(MOOD_CATEGORY_MAP[MoodKey(user_moods[i])])))) :
                         i \in {j \in 1..Len(user_moods) : MoodKey(user_moods[j]) \in MoodKeys}})
         IN  IF FLt(FZero, max_match) THEN max_match ELSE F0_3

estimate_cost_pp(candidate) ==
    IF candidate.type = "venue"
    THEN IF candidate.price_tier # NoneVal /\ candidate.price_tier # 0
         THEN IF candidate.price_tier \in DOMAIN PRICE_TIER_MAP
              THEN FInt(PRICE_TIER_MAP[candidate.price_tier])
              ELSE FInt(12)
         ELSE FInt(12)
    ELSE IF candidate.price_min # NoneVal
         THEN IF candidate.price_max # NoneVal
              THEN FDiv(FAdd(Gbp(candidate.price_min), Gbp(candidate.price_max)), FInt(2))
              ELSE Gbp(candidate.price_min)
         ELSE FInt(15)

price_fit(cost_pp, budget_pp) ==
    IF FLe(cost_pp, budget_pp)
    THEN FOne
    ELSE FMax(FZero,
              FSub(FOne, FDiv(FSub(cost_pp, budget_pp), FAdd(budget_pp, FInt(10)))))

rating_norm(rating, reviews) ==
    IF rating = NoneVal
    THEN F0_6
    ELSE FMin(FOne, IF reviews # NoneVal /\ reviews # 0 /\ reviews < 30
                    THEN FMul(FDiv(Stars(rating), FInt(5)), F0_85)
                    ELSE FDiv(Stars(rating), FInt(5)))

group_fit(group_size, capacity_hint) ==
    IF capacity_hint # NoneVal /\ capacity_hint # 0
    THEN FMin(FOne, FDiv(FInt(capacity_hint), FMul(FInt(group_size), F1_2)))
    ELSE IF group_size <= 12 THEN F0_75
         ELSE IF group_size <= 20 THEN F0_5
         ELSE F0_3

\* mutant: the distance is normalised by the soft radius, 1.5 x preferred
distance_norm_soft_radius(distance_km, preferred_km) ==
    FMax(FZero,
         FSub(FOne, FMin(FDiv(Km(distance_km), FMul(Km(preferred_km), F1_5)),
                         FOne)))

distance_norm(distance_km, preferred_km) ==
    FMax(FZero, FSub(FOne, FMin(FDiv(Km(distance_km), Km(preferred_km)), FOne)))

NoWeather == [present |-> FALSE, hourly |-> <<>>]

\* the first hourly record whose time starts with "HH:00", else the defaults
weather_fit(weather, date, start_time, candidate) ==
    IF ~weather.present
    THEN F0_8
    ELSE LET hits == {k \in 1..Len(weather.hourly) :
                          weather.hourly[k].time = <<start_time[1], 0>>}
             first == CHOOSE k \in hits : \A j \in hits : k <= j
             is_rain == IF hits = {} THEN FALSE ELSE weather.hourly[first].is_rain
             temp == IF hits = {} THEN 10 ELSE weather.hourly[first].temp_c
         IN  IF is_rain /\ candidate.outdoor THEN F0_2
             ELSE IF is_rain /\ candidate.indoor THEN FOne
             ELSE IF ~is_rain /\ candidate.outdoor /\ temp > 10 THEN FOne
             ELSE F0_8

\* mutant: the 0.2 soft-band penalty is not floored at 0
ComponentsNoFloor(user, c, weather) ==
    [mood |-> mood_match(user.moods, c.categories),
     price |-> price_fit(estimate_cost_pp(c), Gbp(user.budget_per_person_gbp)),
     rating |-> rating_norm(c.rating, c.reviews),
     group |-> group_fit(user.group_size, c.capacity_hint),
     distance |-> IF c.distance > user.preferred_radius_km
                  THEN FSub(distance_norm(c.distance, user.preferred_radius_km), F0_2)
                  ELSE distance_norm(c.distance, user.preferred_radius_km),
     weather |-> weather_fit(weather, user.date, user.start_time, c)]

\* rank_activities, lines 430-440: the six components of one candidate
Components(user, c, weather) ==
    [mood |-> mood_match(user.moods, c.categories),
     price |-> price_fit(estimate_cost_pp(c), Gbp(user.budget_per_person_gbp)),
     rating |-> rating_norm(c.rating, c.reviews),
     group |-> group_fit(user.group_size, c.capacity_hint),
     distance |-> IF c.distance > user.preferred_radius_km
                  THEN FMax(FZero,
                            FSub(distance_norm(c.distance, user.preferred_radius_km), F0_2))
                  ELSE distance_norm(c.distance, user.preferred_radius_km),
     weather |-> weather_fit(weather, user.date, user.start_time, c)]

RECURSIVE WeightedSum(_, _)
\* sum(...) over the first k keys: the products added one after the other
WeightedSum(components, k) ==
    IF k = 0
    THEN FZero
    ELSE FAdd(WeightedSum(components, k - 1),
              FMul(FInt(WEIGHTS[WeightKeys[k]]), components[WeightKeys[k]]))

Score(components) == WeightedSum(components, Len(WeightKeys))

\* one entry of the reasons list: the kind of sentence and the values
\* formatted into it
Reason(kind, moods, n, m) == [kind |-> kind, moods |-> moods, n |-> n, m |-> m]

\* build_reasons, lines 376-403, before the cut to the first entries; cost
\* is estimate_cost_pp(candidate) of line 381
AllReasons(user, c, components, cost) ==
    (IF FLt(F0_7, components.mood)
         THEN <<Reason("fits mood", user.moods, 0, 0)>> ELSE <<>>)
        \o (IF FLt(cost, Gbp(user.budget_per_person_gbp))
            THEN <<Reason("under budget by", <<>>,
                          RoundScaled(FSub(Gbp(user.budget_per_person_gbp), cost), 0), 0)>>
            ELSE IF FLe(cost, FMul(Gbp(user.budget_per_person_gbp), F1_2))
            THEN <<Reason("within budget", <<>>, 0, 0)>>
            ELSE <<>>)
        \o (IF c.rating # NoneVal /\ c.rating # 0 /\ c.rating >= 45
            THEN <<Reason("high rating", <<>>, c.rating,
                          IF c.reviews = NoneVal THEN 0 ELSE c.reviews)>>
            ELSE <<>>)
        \o (IF components.weather = FOne /\ c.indoor
            THEN <<Reason("indoor during rain", <<>>, 0, 0)>> ELSE <<>>)
        \o (IF c.distance < 10
            THEN <<Reason("minutes walk from center", <<>>,
                          FloorInt(FMul(Km(c.distance), FInt(12))), 0)>>
            ELSE <<>>)

\* mutant: the reasons list is cut to three entries
build_reasons_top_three(user, c, components) ==
    LET all == AllReasons(user, c, components, estimate_cost_pp(c))
    IN  SubSeq(all, 1, IF Len(all) < 3 THEN Len(all) ELSE 3)

\* build_reasons, line 403: reasons[:4]
build_reasons(user, c, components) ==
    Truncate(AllReasons(user, c, components, estimate_cost_pp(c)), 4)

\* rank_activities, lines 424-425: the budget filter keeps the candidate
budget_filter_keeps(c, budget_per_person_gbp) ==
    FLe(estimate_cost_pp(c), FMul(Gbp(budget_per_person_gbp), FInt(2)))

\* rank_activities, lines 441-450: the RankedItem of one candidate, whose
\* components are those of lines 430-440
MakeRankedItem(user, c, components) ==
    [item |-> c,
     score |-> Score(components),
     components |-> components,
     reasons |-> build_reasons(user, c, components),
     eta_minutes_from_center |-> FloorInt(FMul(Km(c.distance), FInt(12))),
     estimated_cost_pp |-> estimate_cost_pp(c)]

\* ---------------------------------------------------------------- inputs
Venue(id, name, categories, location, distance, indoor, outdoor, price_tier, rating, reviews, open_hours, capacity_hint) ==
    [id |-> id, type |-> "venue", name |-> name, categories |-> categories,
     location |-> location, distance |-> distance,
     indoor |-> indoor, outdoor |-> outdoor,
     price_tier |-> price_tier, rating |-> rating, reviews |-> reviews,
     open_hours |-> open_hours, capacity_hint |-> capacity_hint,
     price_min |-> NoneVal, price_max |-> NoneVal,
     start |-> NoStamp, end |-> NoStamp]

Event(id, name, categories, location, distance, indoor, outdoor, price_min, price_max, start, end) ==
    [id |-> id, type |-> "event", name |-> name, categories |-> categories,
     location |-> location, distance |-> distance,
     indoor |-> indoor, outdoor |-> outdoor,
     price_tier |-> NoneVal, rating |-> NoneVal, reviews |-> NoneVal,
     open_hours |-> <<>>, capacity_hint |-> NoneVal,
     price_min |-> price_min, price_max |-> price_max,
     start |-> start, end |-> end]

NoHours == <<>>

Pool ==
    << Venue("v1", "Ace Bar", <<"bar", "karaoke", "singing">>, 2, 3, TRUE, FALSE,
             1, 50, 50, ("Sat" :> <<<<1020, 120>>>>), 40),
       Venue("v2", "Bolt Karaoke", <<"karaoke", "bar">>, 6, 3, TRUE, FALSE,
             3, 50, 50, NoHours, 40),
       Venue("v3", "Cask Bar", <<"bar", "karaoke">>, -3, 3, TRUE, TRUE,
             1, 47, 120, NoHours, 40),
       Venue("v4", "Dive Bar", <<"bar">>, 30, 40, TRUE, FALSE,
             4, 30, 0, NoHours, 0),
       Event("e1", "Echo Gig", <<"karaoke", "live-music">>, 8, 8, TRUE, FALSE,
             30, 40, Stamp(0, 1170, FALSE), Stamp(0, 1260, FALSE)),
       Event("e2", "Fox Lounge", <<"cocktail", "lounge">>, 5, 6, FALSE, TRUE,
             NoneVal, NoneVal, Stamp(0, 1200, TRUE), Stamp(0, 1380, TRUE)),
       Venue("v5", "Gin Bar", <<"cocktail", "bar">>, -6, 18, FALSE, TRUE,
             NoneVal, NoneVal, NoneVal,
             ("Sat" :> <<<<540, 1020>>>>) @@ ("Sun" :> <<>>), NoneVal),
       Event("e3", "Hive Show", <<"comedy">>, 4, 5, TRUE, FALSE,
             5000, NoneVal, Stamp(0, 1140, FALSE), NoStamp),
       Venue("v7", "Ivy Club", <<"comedy", "lounge">>, -2, 2, TRUE, FALSE,
             2, 45, 10, NoHours, 5),
       Venue("v6", "Zed Bar", <<"bar", "karaoke">>, 4, 3, TRUE, FALSE,
             2, 50, 50, NoHours, 40) >>

\* candidates without a category or with the category "other"
OtherPool ==
    << Venue("o1", "Jam Hall", <<>>, 0, 0, TRUE, FALSE,
             2, 40, 200, NoHours, 40),
       Venue("o2", "Koi Room", <<>>, -1, 1, TRUE, FALSE,
             2, 42, 80, NoHours, 40),
       Venue("o3", "Lux Den", <<"other", "bar">>, 2, 2, TRUE, FALSE,
             1, 44, 60, NoHours, 40),
       Venue("o4", "Moss Yard", <<"bar", "other">>, -2, 2, FALSE, TRUE,
             1, 38, 20, NoHours, 40),
       Venue("o5", "Nix Bar", <<"other", "bar">>, 3, 3, TRUE, FALSE,
             2, 46, 40, NoHours, 40),
       Event("e2", "Fox Lounge", <<"cocktail", "lounge">>, 5, 6, FALSE, TRUE,
             NoneVal, NoneVal, Stamp(0, 1200, TRUE), Stamp(0, 1380, TRUE)) >>

\* cheap events for a request with a budget below one pound and a preferred
\* radius of 0.6 km: Pine Bar at 0.9 km is at 1.5 x the radius in decimals,
\* Opal Museum at 0.90 is at 1.2 x the budget 0.75 in decimals
EdgePool ==
    << Event("x1", "Raw Cafe", <<"cafe">>, 1, 3, TRUE, FALSE,
             100, NoneVal, Stamp(0, 1140, FALSE), Stamp(0, 1200, FALSE)),
       Event("x2", "Opal Museum", <<"museum">>, 3, 3, TRUE, FALSE,
             900, NoneVal, Stamp(0, 1170, FALSE), Stamp(0, 1260, FALSE)),
       Event("x3", "Pine Bar", <<"bar">>, 2, 9, TRUE, FALSE,
             200, NoneVal, Stamp(0, 1230, FALSE), Stamp(0, 1290, FALSE)),
       Event("x4", "Quay Gallery", <<"gallery">>, -2, 6, TRUE, FALSE,
             300, 400, Stamp(0, 1200, FALSE), Stamp(0, 1260, FALSE)) >>

\* two candidates with one name that differ in the id and in the review
\* count only, 0 against missing
Twins ==
    << Venue("t1", "Twin Bar", <<"bar", "karaoke">>, 4, 3, TRUE, FALSE,
             2, 50, 0, NoHours, 40),
       Venue("t2", "Twin Bar", <<"bar", "karaoke">>, 4, 3, TRUE, FALSE,
             2, 50, NoneVal, NoHours, 40) >>

\* up to MaxCands candidates of a pool, in pool order or in reverse pool order
CandListsOf(pool) ==
    LET idx == UNION {[1..n -> 1..Len(pool)] : n \in 0..MaxCands}
        mono == {f \in idx : \/ \A i \in 1..(Len(f) - 1) : f[i] < f[i + 1]
                              \/ \A j \in 1..(Len(f) - 1) : f[j] > f[j + 1]}
    IN  {[i \in 1..Len(f) |-> pool[f[i]]] : f \in mono}

\* the candidate lists
CandLists == CandListsOf(Pool) \cup CandListsOf(OtherPool) \cup CandListsOf(EdgePool)

Hour(h, temp_c, is_rain) == [time |-> <<h, 0>>, temp_c |-> temp_c, is_rain |-> is_rain]

RainAt19 == [present |-> TRUE,
             hourly |-> <<Hour(18, 9, FALSE), Hour(19, 8, TRUE), Hour(20, 8, TRUE)>>]

Dry == [present |-> TRUE, hourly |-> <<Hour(19, 15, FALSE)>>]

User(date, start_time, duration, group_size, budget, moods, center, max_walk, max_results, radius) ==
    [date |-> date, start_time |-> start_time, duration_minutes |-> duration,
     group_size |-> group_size, budget_per_person_gbp |-> budget, moods |-> moods,
     center |-> center, max_walk_minutes_between_stops |-> max_walk,
     max_results |-> max_results, preferred_radius_km |-> radius]

\* the requests, each with its weather snapshot
Requests ==
    { [user |-> User(0, <<19, 0>>, 180, 4, 25000, <<"karaoke">>, <<>>, 15, 10, 30),
       weather |-> RainAt19],
      [user |-> User(0, <<19, 0>>, 180, 4, 10000, <<"karaoke">>, <<>>, 15, 10, 30),
       weather |-> NoWeather],
      [user |-> User(0, <<19, 0>>, 180, 2, 10030, <<"Karaoke", "party">>, <<>>, 15, 3, 30),
       weather |-> Dry],
      [user |-> User(0, <<22, 0>>, 180, 15, 25000, <<>>, <<>>, 15, 3, 30),
       weather |-> NoWeather],
      [user |-> User(0, <<16, 30>>, 60, 25, 40000, <<"Fun", "KARAOKE", "chill">>, <<3>>,
                     5, 3, 10),
       weather |-> RainAt19],
      [user |-> User(1, <<19, 0>>, 120, 4, 25000, <<"chill">>, <<>>, 15, 0, 30),
       weather |-> Dry],
      [user |-> User(0, <<16, 0>>, 120, 6, 30000, <<"chill", "party", "Fun", "karaoke">>,
                     <<>>, 15, 10, 30),
       weather |-> RainAt19],
      [user |-> User(0, <<19, 0>>, 180, 4, 25000, <<"competitive">>, <<>>, 15, 10, 2),
       weather |-> Dry],
      [user |-> User(0, <<19, 0>>, 180, 4, 750, <<"CULTURE">>, <<>>, 15, 10, 6),
       weather |-> Dry] }

\* ------------------------------------------------- results computed once
\* The requests and the candidates of the specifications are fixed.  What
\* rank_activities computes from one request and one candidate is computed
\* once for them and looked up; for any other request or candidate it is
\* computed where it is needed.
AllCandidates == Range(Pool) \cup Range(OtherPool) \cup Range(EdgePool) \cup Range(Twins)

\* table[key] when the table has the key, else value
Lookup(table, key, value) == IF key \in DOMAIN table THEN table[key] ELSE value

SoftRadiusTable ==
    [k \in {<<c, rq.user.preferred_radius_km>> : c \in AllCandidates, rq \in Requests} |->
        soft_radius_filter_keeps(k[1], k[2])]

BudgetTable ==
    [k \in {<<c, rq.user.budget_per_person_gbp>> : c \in AllCandidates, rq \in Requests} |->
        budget_filter_keeps(k[1], k[2])]

RankedItemTable ==
    [k \in {<<rq.user, c, rq.weather>> : rq \in Requests, c \in AllCandidates} |->
        MakeRankedItem(k[1], k[2], Components(k[1], k[2], k[3]))]

\* ------------------------------------------------------------------ ranking
\* the candidate names in Python's string order
NameOrder ==
    <<"Ace Bar", "Bolt Karaoke", "Cask Bar", "Dive Bar", "Echo Gig",
      "Fox Lounge", "Gin Bar", "Hive Show", "Ivy Club", "Jam Hall", "Koi Room",
      "Lux Den", "Moss Yard", "Nix Bar", "Opal Museum", "Pine Bar", "Quay Gallery",
      "Raw Cafe", "Twin Bar", "Zed Bar">>

NameIdx(name) == CHOOSE i \in 1..Len(NameOrder) : NameOrder[i] = name

ReviewsOrZero(r) == IF r.item.reviews = NoneVal THEN 0 ELSE r.item.reviews

\* a's sort key is smaller than b's: the key of lines 453-458 when withName,
\* the key of lines 478-482 otherwise
KeyLT(a, b, withName) ==
    IF a.score # b.score THEN FLt(b.score, a.score)
    ELSE IF ReviewsOrZero(a) # ReviewsOrZero(b) THEN ReviewsOrZero(a) > ReviewsOrZero(b)
    ELSE IF a.item.distance # b.item.distance THEN a.item.distance < b.item.distance
    ELSE withName /\ NameIdx(a.item.name) < NameIdx(b.item.name)

\* x put into the sorted list s behind every element that is not greater
InsertSorted(s, x, withName) ==
    LET greater == {k \in 1..Len(s) : KeyLT(x, s[k], withName)}
        pos == IF greater = {} THEN Len(s) + 1
               ELSE CHOOSE k \in greater : \A j \in greater : k <= j
    IN  SubSeq(s, 1, pos - 1) \o <<x>> \o SubSeq(s, pos, Len(s))

\* list.sort(key=...): a stable sort
RECURSIVE SortFirst(_, _, _)
SortFirst(s, n, withName) ==
    IF n = 0 THEN <<>>
    ELSE InsertSorted(SortFirst(s, n - 1, withName), s[n], withName)

SortRanked(s, withName) == SortFirst(s, Len(s), withName)

\* mutant: an item without categories is counted under its own id
main_cat_per_item(r) == IF r.item.categories # <<>> THEN r.item.categories[1] ELSE r.item.id

main_cat(r) == IF r.item.categories # <<>> THEN r.item.categories[1] ELSE "other"

\* category_count[main_cat] after the loop has processed ranked[i]
CategoryCount(ranked, i) ==
    Cardinality({j \in 1..i : main_cat(ranked[j]) = main_cat(ranked[i])})

PenaltyFactor == Float(9, 10)

\* mutant: the penalty starts at the 4th occurrence of a category
apply_diversity_penalty_from_fourth(ranked) ==
    SortRanked([i \in 1..Len(ranked) |->
                    IF CategoryCount(ranked, i) > 3
                    THEN [ranked[i] EXCEPT !.score = FMul(@, PenaltyFactor)]
                    ELSE ranked[i]],
               FALSE)

apply_diversity_penalty(ranked) ==
    SortRanked([i \in 1..Len(ranked) |->
                    IF CategoryCount(ranked, i) > 2
                    THEN [ranked[i] EXCEPT !.score = FMul(@, PenaltyFactor)]
                    ELSE ranked[i]],
               FALSE)

RECURSIVE FilterSeq(_, _, _)
\* the candidates among the first n that pass the three filters, in order
FilterSeq(user, candidates, n) ==
    IF n = 0 THEN <<>>
    ELSE LET c == candidates[n]
             start_min == parse_time(user.start_time)
             end_min == start_min + user.duration_minutes
             rest == FilterSeq(user, candidates, n - 1)
         IN  IF /\ is_time_compatible(c, user.date, start_min, end_min)
                /\ Lookup(SoftRadiusTable, <<c, user.preferred_radius_km>>,
                          soft_radius_filter_keeps(c, user.preferred_radius_km))
                /\ Lookup(BudgetTable, <<c, user.budget_per_person_gbp>>,
                          budget_filter_keeps(c, user.budget_per_person_gbp))
             THEN Append(rest, c)
             ELSE rest

Compatible(user, candidates) == FilterSeq(user, candidates, Len(candidates))

\* rank_activities raises when is_time_compatible raises on a candidate
RankRaises(user, candidates) ==
    \E k \in 1..Len(candidates) :
        TimeCompatibleRaises(candidates[k], user.date, parse_time(user.start_time),
                             parse_time(user.start_time) + user.duration_minutes)

RECURSIVE RankedItems(_, _, _)
\* rank_activities, lines 427-450: the list of the RankedItems of the
\* compatible candidates
RankedItems(user, compatible, weather) ==
    IF compatible = <<>> THEN <<>>
    ELSE Append(RankedItems(user, SubSeq(compatible, 1, Len(compatible) - 1), weather),
                Lookup(RankedItemTable, <<user, compatible[Len(compatible)], weather>>,
                       MakeRankedItem(user, compatible[Len(compatible)],
                                      Components(user, compatible[Len(compatible)],
                                                 weather))))

\* mutant: the first sort leaves the name out of its key
ScoreAndSortWithoutName(user, candidates, weather) ==
    SortRanked(RankedItems(user, Compatible(user, candidates), weather), FALSE)

\* rank_activities up to the first sort
ScoreAndSort(user, candidates, weather) ==
    SortRanked(RankedItems(user, Compatible(user, candidates), weather), TRUE)

rank_activities(user, candidates, weather) ==
    Truncate(apply_diversity_penalty(ScoreAndSort(user, candidates, weather)),
             user.max_results)

\* ---------------------------------------------------------------- itinerary
FirstIn(S) == CHOOSE k \in S : \A j \in S : k <= j

get_dwell_time(categories) ==
    LET known == {k \in 1..Len(categories) : categories[k] \in DOMAIN DWELL_TIMES}
    IN  IF known = {} THEN DWELL_TIMES["default"]
        ELSE DWELL_TIMES[categories[FirstIn(known)]]

DefaultTemplate == <<<<"bar">>, <<"bar", "karaoke", "bowling">>, <<"bar">>>>

RECURSIVE MoodTemplates(_, _)
MoodTemplates(moods, n) ==
    IF n = 0 THEN <<>>
    ELSE IF MoodKey(moods[n]) \in DOMAIN ITINERARY_TEMPLATES
         THEN Append(MoodTemplates(moods, n - 1), ITINERARY_TEMPLATES[MoodKey(moods[n])])
         ELSE MoodTemplates(moods, n - 1)

pick_templates(moods) ==
    LET templates == MoodTemplates(moods, Len(moods))
    IN  IF templates = <<>> THEN <<DefaultTemplate>> ELSE templates

\* user.center or Location(55.858, -4.259)
CenterOf(user) == IF user.center = <<>> THEN 0 ELSE user.center[1]

\* the builder's local variables before the first slot (lines 536-541)
BuilderInit(user) ==
    [stops |-> <<>>,
     current_time |-> parse_time(user.start_time),
     total_cost |-> FZero,
     total_walk |-> 0,
     last_location |-> CenterOf(user),
     used_ids |-> {}]

\* mutant: the scan does not skip the ids already used
EligibleIgnoringUsed(user, ranked, categories, st) ==
    {k \in 1..Len(ranked) :
        /\ Range(categories) \cap Range(ranked[k].item.categories) # {}
        /\ WalkMinutes(st.last_location, ranked[k].item.location)
               <= user.max_walk_minutes_between_stops}

\* mutant: the scan does not look at the walk from the last location
EligibleAnyDistance(user, ranked, categories, st) ==
    {k \in 1..Len(ranked) :
        /\ ranked[k].item.id \notin st.used_ids
        /\ Range(categories) \cap Range(ranked[k].item.categories) # {}}

\* mutant: the scan starts at the second ranked item
EligibleFromSecond(user, ranked, categories, st) ==
    {k \in 2..Len(ranked) :
        /\ ranked[k].item.id \notin st.used_ids
        /\ Range(categories) \cap Range(ranked[k].item.categories) # {}
        /\ WalkMinutes(st.last_location, ranked[k].item.location)
               <= user.max_walk_minutes_between_stops}

\* the ranked items the scan of lines 548-560 accepts for a slot
Eligible(user, ranked, categories, st) ==
    {k \in 1..Len(ranked) :
        /\ ranked[k].item.id \notin st.used_ids
        /\ Range(categories) \cap Range(ranked[k].item.categories) # {}
        /\ WalkMinutes(st.last_location, ranked[k].item.location)
               <= user.max_walk_minutes_between_stops}

\* mutant: a skipped slot still costs the 7 minutes of a transfer
SlotStepSkipTakesTime(user, ranked, template, i, st) ==
    LET eligible == Eligible(user, ranked, template[i + 1], st)
    IN  IF eligible = {} THEN [st EXCEPT !.current_time = @ + 7]
        ELSE
        LET candidate == ranked[FirstIn(eligible)]
            walk_min == IF i > 0
                        THEN WalkMinutes(st.last_location, candidate.item.location)
                        ELSE 0
            walked == st.current_time + walk_min
            range == get_dwell_time(candidate.item.categories)
            is_timed == candidate.item.type = "event" /\ candidate.item.start.present
            current_time == IF is_timed THEN candidate.item.start.min ELSE walked
            dwell == IF is_timed /\ candidate.item.end.present
                     THEN candidate.item.end.min - current_time
                     ELSE (range[1] + range[2]) \div 2
            stop == [id |-> candidate.item.id,
                     name |-> candidate.item.name,
                     arrive |-> minutes_to_time(current_time),
                     depart |-> minutes_to_time(current_time + dwell),
                     walk_minutes_to_next |-> IF i < Len(template) - 1 THEN 7 ELSE 0,
                     cost_pp |-> candidate.estimated_cost_pp,
                     \* the minute counts the two clock strings are made from
                     arrive_min |-> current_time,
                     depart_min |-> current_time + dwell,
                     \* the index i of the template slot the stop fills
                     slot |-> i]
        IN  [stops |-> Append(st.stops, stop),
             current_time |-> current_time + dwell,
             total_cost |-> FAdd(st.total_cost, candidate.estimated_cost_pp),
             total_walk |-> st.total_walk + walk_min,
             last_location |-> candidate.item.location,
             used_ids |-> st.used_ids \cup {candidate.item.id}]

\* one iteration of the slot loop (lines 543-608); i is the 0-based index
SlotStep(user, ranked, template, i, st) ==
    LET eligible == Eligible(user, ranked, template[i + 1], st)
    IN  IF eligible = {} THEN st
        ELSE
        LET candidate == ranked[FirstIn(eligible)]
            walk_min == IF i > 0
                        THEN WalkMinutes(st.last_location, candidate.item.location)
                        ELSE 0
            walked == st.current_time + walk_min
            range == get_dwell_time(candidate.item.categories)
            is_timed == candidate.item.type = "event" /\ candidate.item.start.present
            current_time == IF is_timed THEN candidate.item.start.min ELSE walked
            dwell == IF is_timed /\ candidate.item.end.present
                     THEN candidate.item.end.min - current_time
                     ELSE (range[1] + range[2]) \div 2
            stop == [id |-> candidate.item.id,
                     name |-> candidate.item.name,
                     arrive |-> minutes_to_time(current_time),
                     depart |-> minutes_to_time(current_time + dwell),
                     walk_minutes_to_next |-> IF i < Len(template) - 1 THEN 7 ELSE 0,
                     cost_pp |-> candidate.estimated_cost_pp,
                     \* the minute counts the two clock strings are made from
                     arrive_min |-> current_time,
                     depart_min |-> current_time + dwell,
                     \* the index i of the template slot the stop fills
                     slot |-> i]
        IN  [stops |-> Append(st.stops, stop),
             current_time |-> current_time + dwell,
             total_cost |-> FAdd(st.total_cost, candidate.estimated_cost_pp),
             total_walk |-> st.total_walk + walk_min,
             last_location |-> candidate.item.location,
             used_ids |-> st.used_ids \cup {candidate.item.id}]

RECURSIVE FillSlots(_, _, _, _)
\* the builder's local variables after the first n slots
FillSlots(user, ranked, template, n) ==
    IF n = 0 THEN BuilderInit(user)
    ELSE SlotStep(user, ranked, template, n - 1, FillSlots(user, ranked, template, n - 1))

generate_itinerary_title(stops, moods) ==
    LET keys == {MoodKey(moods[k]) : k \in 1..Len(moods)}
    IN  IF "karaoke" \in keys THEN "Karaoke night folks"
        ELSE IF "competitive" \in keys THEN "Game on challenge!"
        ELSE IF "chill" \in keys THEN "Relaxed evening out so just chill guys"
        ELSE IF "culture" \in keys THEN "Cultural journey"
        ELSE "Glasgow Night Out"

\* mutant: the walk total is compared with the limit of a single leg
ItineraryReasonsSingleLeg(user, ranked, st) ==
    LET indoor_count ==
            Cardinality({k \in 1..Len(st.stops) :
                \E j \in 1..Len(ranked) :
                    ranked[j].item.id = st.stops[k].id /\ ranked[j].item.indoor})
    IN  (IF FLe(st.total_cost, Gbp(user.budget_per_person_gbp)) THEN <<"within budget">>
         ELSE IF FLe(st.total_cost, FMul(Gbp(user.budget_per_person_gbp), F1_1))
         THEN <<"slightly above budget">>
         ELSE <<>>)
        \o (IF st.total_walk <= user.max_walk_minutes_between_stops
            THEN <<"short transfers">> ELSE <<>>)
        \o (IF FLe(FMul(FInt(Len(st.stops)), F0_7), FInt(indoor_count))
            THEN <<"mostly indoor">> ELSE <<>>)

\* mutant: the indoor share needed is 60%
ItineraryReasonsSixtyPercent(user, ranked, st) ==
    LET indoor_count ==
            Cardinality({k \in 1..Len(st.stops) :
                \E j \in 1..Len(ranked) :
                    ranked[j].item.id = st.stops[k].id /\ ranked[j].item.indoor})
    IN  (IF FLe(st.total_cost, Gbp(user.budget_per_person_gbp)) THEN <<"within budget">>
         ELSE IF FLe(st.total_cost, FMul(Gbp(user.budget_per_person_gbp), F1_1))
         THEN <<"slightly above budget">>
         ELSE <<>>)
        \o (IF st.total_walk <= user.max_walk_minutes_between_stops * Len(st.stops)
            THEN <<"short transfers">> ELSE <<>>)
        \o (IF FLe(FMul(FInt(Len(st.stops)), F0_6), FInt(indoor_count))
            THEN <<"mostly indoor">> ELSE <<>>)

\* lines 619-633: the reason tags of an accepted itinerary
ItineraryReasons(user, ranked, st) ==
    LET indoor_count ==
            Cardinality({k \in 1..Len(st.stops) :
                \E j \in 1..Len(ranked) :
                    ranked[j].item.id = st.stops[k].id /\ ranked[j].item.indoor})
    IN  (IF FLe(st.total_cost, Gbp(user.budget_per_person_gbp)) THEN <<"within budget">>
         ELSE IF FLe(st.total_cost, FMul(Gbp(user.budget_per_person_gbp), F1_1))
         THEN <<"slightly above budget">>
         ELSE <<>>)
        \o (IF st.total_walk <= user.max_walk_minutes_between_stops * Len(st.stops)
            THEN <<"short transfers">> ELSE <<>>)
        \o (IF FLe(FMul(FInt(Len(st.stops)), F0_7), FInt(indoor_count))
            THEN <<"mostly indoor">> ELSE <<>>)

\* mutant: an itinerary of a single stop is accepted
try_build_template_single_stop(user, ranked, template) ==
    LET st == FillSlots(user, ranked, template, Len(template))
    IN  IF Len(st.stops) < 1 THEN <<>>
        ELSE IF FLt(FMul(Gbp(user.budget_per_person_gbp), F1_2), st.total_cost)
        THEN <<>>
        ELSE <<[title |-> generate_itinerary_title(st.stops, user.moods),
                stops |-> st.stops,
                total_cost_pp |-> FRound(st.total_cost, 2),
                total_walk_minutes |-> st.total_walk,
                reasons |-> Truncate(ItineraryReasons(user, ranked, st), 3),
                plan_b |-> <<"Alternative venues available within", user.preferred_radius_km>>]>>

\* mutant: the total is not rounded
ItineraryOfUnroundedTotal(user, ranked, st) ==
    IF Len(st.stops) < 2 THEN <<>>
    ELSE IF FLt(FMul(Gbp(user.budget_per_person_gbp), F1_2), st.total_cost)
    THEN <<>>
    ELSE <<[title |-> generate_itinerary_title(st.stops, user.moods),
            stops |-> st.stops,
            total_cost_pp |-> st.total_cost,
            total_walk_minutes |-> st.total_walk,
            reasons |-> Truncate(ItineraryReasons(user, ranked, st), 3),
            plan_b |-> <<"Alternative venues available within", user.preferred_radius_km>>]>>

\* lines 610-640, what try_build_template returns when the slot loop has
\* left the builder's local variables st: <<>> for None, else the one-element
\* list of the itinerary
ItineraryOf(user, ranked, st) ==
    IF Len(st.stops) < 2 THEN <<>>
    ELSE IF FLt(FMul(Gbp(user.budget_per_person_gbp), F1_2), st.total_cost)
    THEN <<>>
    ELSE <<[title |-> generate_itinerary_title(st.stops, user.moods),
            stops |-> st.stops,
            total_cost_pp |-> FRound(st.total_cost, 2),
            total_walk_minutes |-> st.total_walk,
            reasons |-> Truncate(ItineraryReasons(user, ranked, st), 3),
            plan_b |-> <<"Alternative venues available within", user.preferred_radius_km>>]>>

\* <<>> for None, else the one-element list of the itinerary
try_build_template(user, ranked, template) ==
    ItineraryOf(user, ranked, FillSlots(user, ranked, template, Len(template)))

RECURSIVE BuildFirst(_, _, _, _)
BuildFirst(user, ranked, templates, n) ==
    IF n = 0 THEN <<>>
    ELSE BuildFirst(user, ranked, templates, n - 1)
             \o try_build_template(user, ranked, templates[n])

\* mutant: every picked template is tried
build_itineraries_all_templates(user, ranked) ==
    LET templates == pick_templates(user.moods)
    IN  BuildFirst(user, ranked, templates, Len(templates))

build_itineraries(user, ranked) ==
    LET templates == pick_templates(user.moods)
    IN  BuildFirst(user, ranked, templates, IF Len(templates) < 2 THEN Len(templates) ELSE 2)

\* recommend, lines 675-686: the entry of the response's list `top` for one
\* ranked item
TopItem(r) ==
    [id |-> r.item.id,
     name |-> r.item.name,
     type |-> r.item.type,
     score |-> FRound(r.score, 1),
     reasons |-> r.reasons,
     components |-> [k \in DOMAIN r.components |-> FRound(r.components[k], 2)],
     eta_minutes_from_center |-> r.eta_minutes_from_center,
     estimated_cost_pp |-> FRound(r.estimated_cost_pp, 2)]

\* recommend, lines 674-686: the response's list `top`
top_items(ranked) == [k \in 1..Len(ranked) |-> TopItem(ranked[k])]

\* ----------------------------------------------------------- state machine
VARIABLES
    user_request,         \* the UserRequest of the call
    candidates,   \* the caller's candidate list
    weather_snapshot,      \* the caller's weather snapshot
    pc,           \* position in recommend(): "call", "sorted", "penalised",
                  \* "ranked", "done", or "raised" after an exception
    ranked,       \* the local list `ranked` of rank_activities
    top,          \* the list rank_activities returned
    itineraries,  \* the list build_itineraries returned
    calls,        \* number of calls of recommend() started on these inputs
    prev          \* what the previous call returned

vars == <<user_request, candidates, weather_snapshot, pc, ranked, top, itineraries, calls, prev>>

NoResult == [top |-> <<>>, itineraries |-> <<>>]

\* the RankedItem object with the fields of r; obj names the object, which
\* a list holds by reference, and ref is the place in the caller's list of
\* the Candidate object that the field item refers to
Object(r, obj, ref) ==
    [item |-> r.item, score |-> r.score, components |-> r.components,
     reasons |-> r.reasons, eta_minutes_from_center |-> r.eta_minutes_from_center,
     estimated_cost_pp |-> r.estimated_cost_pp, obj |-> obj, ref |-> ref]

\* how many of the first i entries of items have the item of entry i
Occurrence(items, i) == Cardinality({j \in 1..i : items[j].item = items[i].item})

\* the place in the caller's list of the n-th candidate equal to c
PlaceOf(held, c, n) ==
    CHOOSE k \in 1..Len(held) :
        held[k] = c /\ Cardinality({m \in 1..k : held[m] = c}) = n

\* RankedItem(...), lines 441-450, makes a new object for each item in
\* every call.  The filters keep or drop equal candidates alike and the
\* stable sort of lines 453-458 keeps equal candidates in the caller's
\* order, so the n-th entry with some item refers to the n-th such candidate
\* of the caller's list
NewObjects(items, call, held) ==
    [i \in 1..Len(items) |->
        Object(items[i], <<call, i>>, PlaceOf(held, items[i].item, Occurrence(items, i)))]

\* the list held as it shows once the scores of the objects written have been
\* written: an entry that is one of these objects shows the object's score
AfterWrite(held, written) ==
    [i \in 1..Len(held) |->
        IF \E j \in 1..Len(written) : written[j].obj = held[i].obj
        THEN [held[i] EXCEPT !.score =
                  written[CHOOSE j \in 1..Len(written) : written[j].obj = held[i].obj].score]
        ELSE held[i]]

\* RankedItem.item is the caller's Candidate object (line 450 stores the
\* reference, no copy): the caller's list as it shows once the ranked items
\* are what a step has made of them; an entry that a ranked item refers to
\* shows the fields of that item
CandidatesAfter(held, items) ==
    [k \in 1..Len(held) |->
        IF \E j \in 1..Len(items) : items[j].ref = k
        THEN items[CHOOSE j \in 1..Len(items) : items[j].ref = k].item
        ELSE held[k]]

Init ==
    /\ \E rq \in Requests : user_request = rq.user /\ weather_snapshot = rq.weather
    /\ candidates \in CandLists
    /\ pc = "call"
    /\ ranked = <<>>
    /\ top = <<>>
    /\ itineraries = <<>>
    /\ calls = 1
    /\ prev = NoResult

\* rank_activities, lines 417-421: the time filter raises
RankRaise ==
    /\ pc = "call"
    /\ RankRaises(user_request, candidates)
    /\ pc' = "raised"
    /\ UNCHANGED <<user_request, candidates, weather_snapshot, ranked, top, itineraries, calls, prev>>

\* mutant: a later call starts from the RankedItem objects of the call before
RankSortReusingItems ==
    /\ pc = "call"
    /\ ~RankRaises(user_request, candidates)
    /\ ranked' = IF calls > 1 THEN prev.top
                  ELSE NewObjects(ScoreAndSort(user_request, candidates, weather_snapshot), calls, candidates)
    /\ candidates' = CandidatesAfter(candidates, ranked')
    /\ pc' = "sorted"
    /\ UNCHANGED <<user_request, weather_snapshot, top, itineraries, calls, prev>>

\* rank_activities, lines 417-458: filter, score, first sort
RankSort ==
    /\ pc = "call"
    /\ ~RankRaises(user_request, candidates)
    /\ ranked' = NewObjects(ScoreAndSort(user_request, candidates, weather_snapshot), calls, candidates)
    /\ candidates' = CandidatesAfter(candidates, ranked')
    /\ pc' = "sorted"
    /\ UNCHANGED <<user_request, weather_snapshot, top, itineraries, calls, prev>>

\* rank_activities, line 461; r.score *= 0.9 (line 475) writes the object, so
\* the list the previous call returned, which the caller still holds, shows
\* the new score of every object it shares with this call's list, and the
\* caller's candidates are the items of the ranked objects
RankPenalise ==
    /\ pc = "sorted"
    /\ ranked' = apply_diversity_penalty(ranked)
    /\ prev' = [prev EXCEPT !.top = AfterWrite(@, ranked')]
    /\ candidates' = CandidatesAfter(candidates, ranked')
    /\ pc' = "penalised"
    /\ UNCHANGED <<user_request, weather_snapshot, top, itineraries, calls>>

\* rank_activities, line 463, and recommend, line 670
RankReturn ==
    /\ pc = "penalised"
    /\ top' = Truncate(ranked, user_request.max_results)
    /\ pc' = "ranked"
    /\ UNCHANGED <<user_request, candidates, weather_snapshot, ranked, itineraries, calls, prev>>

\* recommend, line 671
BuildItineraries ==
    /\ pc = "ranked"
    /\ itineraries' = build_itineraries(user_request, top)
    /\ pc' = "done"
    /\ UNCHANGED <<user_request, candidates, weather_snapshot, ranked, top, calls, prev>>

\* the caller calls recommend() again with the same objects
CallAgain ==
    /\ pc = "done"
    /\ calls < MaxCalls
    /\ prev' = [top |-> top, itineraries |-> itineraries]
    /\ calls' = calls + 1
    /\ pc' = "call"
    /\ ranked' = <<>>
    /\ top' = <<>>
    /\ itineraries' = <<>>
    /\ UNCHANGED <<user_request, candidates, weather_snapshot>>

Next ==
    \/ RankRaise
    \/ RankSort
    \/ RankPenalise
    \/ RankReturn
    \/ BuildItineraries
    \/ CallAgain

Spec == Init /\ [][Next]_vars

\* the candidates and requests of the specification for the order of the
\* candidate list: the karaoke bars whose keys tie before or after the
\* diversity penalty, a far bar, an event with offset-aware timestamps, and
\* the two venues of one name that differ in their review count, 0 and None
OrderPool == <<Pool[1], Pool[2], Pool[3], Pool[4], Pool[6], Pool[10]>> \o Twins

OrderRequests == {rq \in Requests : rq.user.moods = <<"karaoke">>}

InitOrder ==
    /\ \E rq \in OrderRequests : user_request = rq.user /\ weather_snapshot = rq.weather
    /\ candidates \in CandListsOf(OrderPool)
    /\ pc = "call"
    /\ ranked = <<>>
    /\ top = <<>>
    /\ itineraries = <<>>
    /\ calls = 1
    /\ prev = NoResult

SpecOrder == InitOrder /\ [][Next]_vars

\* ------------------------------------------------------------- properties
Returned == pc \in {"ranked", "done"}

InUnit(x) == FLe(FZero, x) /\ FLe(x, FOne)

\* number of items of top above position i with the primary category of top[i]
SameCatAbove(i) ==
    Cardinality({j \in 1..(i - 1) : main_cat(top[j]) = main_cat(top[i])})

Penalised(r) == r.score # Score(r.components)

\* s is ordered by the four-part key of lines 453-458
SortedByKey(s) == \A i \in 1..(Len(s) - 1) : ~KeyLT(s[i + 1], s[i], TRUE)

\* C1: with max_results >= 0, rank_activities returns at most max_results items
C1_AtMostMaxResults ==
    (Returned /\ user_request.max_results >= 0) => Len(top) <= user_request.max_results

C1_Witness ==
    /\ pc = "ranked"
    /\ user_request.max_results > 0
    /\ Len(ranked) > user_request.max_results
    /\ Len(top) = user_request.max_results

\* twice the estimated per-person cost of c in thousandths of a pound: the
\* tier price of a venue (12 without a known tier), the mean of price_min
\* and price_max of an event (price_min alone, 15 without prices)
TwiceCostMills(c) ==
    IF c.type = "venue"
    THEN IF c.price_tier \in DOMAIN PRICE_TIER_MAP
         THEN 2000 * PRICE_TIER_MAP[c.price_tier]
         ELSE 24000
    ELSE IF c.price_min = NoneVal THEN 30000
    ELSE IF c.price_max = NoneVal THEN 2 * c.price_min
    ELSE c.price_min + c.price_max

\* C2: every returned item is an input candidate that passes the time, the
\* radius (1.5 x preferred) and the budget (2 x budget) filter, an event only
\* with both timestamps, and no input candidate is returned twice; the two
\* bounds are taken in decimals, distances in tenths of a km and money in
\* thousandths of a pound
C2_OnlyFilteredCandidates ==
    Returned =>
        /\ \A i \in 1..Len(top) :
              LET c == top[i].item
                  start_min == parse_time(user_request.start_time)
              IN  /\ \E k \in 1..Len(candidates) : candidates[k] = c
                  /\ is_time_compatible(c, user_request.date, start_min,
                                        start_min + user_request.duration_minutes)
                  /\ c.type = "event" => (c.start.present /\ c.end.present)
                  /\ c.distance * 10 <= user_request.preferred_radius_km * 15
                  /\ TwiceCostMills(c) <= 4 * user_request.budget_per_person_gbp
        /\ \A i, j \in 1..Len(top) : top[i].item = top[j].item => i = j

C2_Witness ==
    /\ pc = "ranked"
    /\ Len(top) >= 2
    /\ Len(top) = Len(ranked)
    /\ \E k \in 1..Len(candidates) :
          /\ candidates[k].distance * 10 > user_request.preferred_radius_km * 15
             \/ TwiceCostMills(candidates[k]) > 4 * user_request.budget_per_person_gbp
          /\ \A i \in 1..Len(top) : top[i].item # candidates[k]
    /\ \E k \in 1..Len(candidates) :
          /\ candidates[k].type = "event" /\ ~candidates[k].end.present
          /\ \A i \in 1..Len(top) : top[i].item # candidates[k]

\* C3: every component of every ranked item is in [0,1] and its score in
\* [0,100], before and after the diversity penalty
C3_ScoresInRange ==
    pc \in {"sorted", "penalised"} =>
        \A i \in 1..Len(ranked) :
            /\ \A k \in 1..Len(WeightKeys) : InUnit(ranked[i].components[WeightKeys[k]])
            /\ FLe(FZero, ranked[i].score)
            /\ FLe(ranked[i].score, FInt(100))

C3_Witness ==
    /\ pc = "penalised"
    /\ \E i \in 1..Len(ranked) : Penalised(ranked[i])
    /\ \E i \in 1..Len(ranked) :
          /\ ranked[i].item.distance > user_request.preferred_radius_km
          /\ ranked[i].components.distance = FZero

\* C4: the list is ordered by (score desc, reviews desc, distance asc, name
\* asc) before the penalty, and the returned list again, by the same key
C4_OrderedByFourPartKey ==
    /\ pc = "sorted" => SortedByKey(ranked)
    /\ Returned => SortedByKey(top)

\* C5: a returned item has the 0.9 multiplier exactly when two or more items
\* of its primary category are ranked above it
C5_PenalisedFromThird ==
    Returned =>
        \A i \in 1..Len(top) :
            top[i].score = IF SameCatAbove(i) >= 2
                           THEN FMul(Score(top[i].components), PenaltyFactor)
                           ELSE Score(top[i].components)

C5_Witness ==
    /\ pc = "ranked"
    /\ \E i \in 1..Len(top) : SameCatAbove(i) >= 2 /\ Penalised(top[i])
    /\ \E i \in 1..Len(top) : SameCatAbove(i) = 1 /\ ~Penalised(top[i])

\* C6: every returned itinerary has 2 or 3 stops with pairwise distinct ids
C6_TwoOrThreeDistinctStops ==
    pc = "done" =>
        \A n \in 1..Len(itineraries) :
            LET stops == itineraries[n].stops
            IN  /\ Len(stops) \in {2, 3}
                /\ \A i, j \in 1..Len(stops) : stops[i].id = stops[j].id => i = j

C6_Witness ==
    /\ pc = "done"
    /\ \E n \in 1..Len(itineraries) : Len(itineraries[n].stops) = 3
    /\ \E n \in 1..Len(itineraries) : Len(itineraries[n].stops) = 2

\* C7: every returned itinerary has total_cost_pp <= 1.2 x budget
C7_TotalCostWithinBudget ==
    pc = "done" =>
        \A n \in 1..Len(itineraries) :
            FLe(itineraries[n].total_cost_pp,
                FMul(Gbp(user_request.budget_per_person_gbp), F1_2))

\* C8: on a well-formed request rank_activities and recommend do not raise
C8_NeverRaises == pc # "raised"

\* what the entries of a list of RankedItems show
Shown(items) ==
    [k \in 1..Len(items) |->
        [item |-> items[k].item, score |-> items[k].score,
         components |-> items[k].components, reasons |-> items[k].reasons,
         eta_minutes_from_center |-> items[k].eta_minutes_from_center,
         estimated_cost_pp |-> items[k].estimated_cost_pp]]

\* C9: no step changes the candidate list or a candidate; a call does not
\* write the objects of the list the call before it returned, and a second
\* call on the same objects returns the items, in the order and with the
\* scores, that the first call returned
C9_CandidatesUntouched ==
    [][/\ candidates' = candidates
       /\ pc # "done" => prev' = prev
       /\ (pc' = "ranked" /\ calls > 1) => Shown(top') = Shown(prev.top)]_vars

\* a second call has returned a list with a penalised item, in objects of
\* its own
C9_Witness ==
    /\ pc = "ranked"
    /\ calls = 2
    /\ \E i \in 1..Len(top) : Penalised(top[i])
    /\ \A i \in 1..Len(top) : \A j \in 1..Len(prev.top) : top[i].obj # prev.top[j].obj

\* C10: every stop of every returned itinerary arrives at or after the start
\* time and departs at or before start time + duration
C10_StopsInsideWindow ==
    pc = "done" =>
        \A n \in 1..Len(itineraries) :
            \A i \in 1..Len(itineraries[n].stops) :
                /\ itineraries[n].stops[i].arrive_min >= parse_time(user_request.start_time)
                /\ itineraries[n].stops[i].depart_min
                       <= parse_time(user_request.start_time) + user_request.duration_minutes

\* the candidate behind the stop with this id
ItemOf(id) == top[CHOOSE k \in 1..Len(top) : top[k].item.id = id].item

\* C11: in every returned itinerary whose first stop is a venue, that stop's
\* arrive string is the request's start_time
C11_FirstVenueAtStartTime ==
    pc = "done" =>
        \A n \in 1..Len(itineraries) :
            ItemOf(itineraries[n].stops[1].id).type = "venue"
                => itineraries[n].stops[1].arrive = user_request.start_time

\* the snapshot has an hourly record for the start hour, and it is rain-flagged
RainFlaggedAtStart ==
    /\ weather_snapshot.present
    /\ \E k \in 1..Len(weather_snapshot.hourly) : weather_snapshot.hourly[k].time[1] = user_request.start_time[1]
    /\ \A k \in 1..Len(weather_snapshot.hourly) :
           weather_snapshot.hourly[k].time[1] = user_request.start_time[1] => weather_snapshot.hourly[k].is_rain

HasReason(r, kind) == \E k \in 1..Len(r.reasons) : r.reasons[k].kind = kind

\* C12: an indoor, not outdoor candidate ranked under a snapshot whose record
\* for the start hour is rain-flagged has weather component 1.0 and carries
\* the reason "indoor during rain", whatever other reasons apply
C12_IndoorDuringRain ==
    Returned =>
        \A i \in 1..Len(top) :
            (top[i].item.indoor /\ ~top[i].item.outdoor /\ RainFlaggedAtStart)
                => /\ top[i].components.weather = FOne
                   /\ HasReason(top[i], "indoor during rain")

\* an indoor-only item in the rain to which all five reasons apply
C12_Witness ==
    /\ Returned
    /\ RainFlaggedAtStart
    /\ \E i \in 1..Len(top) :
           /\ top[i].item.indoor /\ ~top[i].item.outdoor
           /\ Len(top[i].reasons) = 4
           /\ HasReason(top[i], "fits mood")
           /\ HasReason(top[i], "under budget by")
           /\ HasReason(top[i], "high rating")
           /\ HasReason(top[i], "indoor during rain")
           /\ top[i].item.distance < 10

\* C13: an empty candidate list gives an empty ranked list and no itinerary,
\* without an error; when rank_activities has returned fewer than 2 items,
\* recommend goes on to return no itinerary together with that list
C13_FewItemsNoItinerary ==
    /\ [](candidates = <<>> =>
              (pc # "raised" /\ ranked = <<>> /\ top = <<>> /\ itineraries = <<>>))
    /\ [][(pc = "ranked" /\ Len(top) < 2) =>
              (pc' = "done" /\ itineraries' = <<>> /\ top' = top)]_vars

\* a single ranked item that fills a slot of the first template
C13_Witness ==
    /\ pc = "done"
    /\ Len(top) = 1
    /\ itineraries = <<>>
    /\ Len(FillSlots(user_request, top, pick_templates(user_request.moods)[1], 3).stops) = 1

\* a capital letter and its small letter
SameLetter(a, b) ==
    \/ a = b
    \/ \E i \in 1..Len(UpperCase) :
           {a, b} = {SubSeq(UpperCase, i, i), SubSeq(LowerCase, i, i)}

\* the two strings are the same but for the case of their letters
EqualIgnoringCase(a, b) ==
    /\ Len(a) = Len(b)
    /\ \A i \in 1..Len(a) : SameLetter(SubSeq(a, i, i), SubSeq(b, i, i))

\* the moods with a template that the user's mood names
TemplateMoods(mood) == {key \in DOMAIN ITINERARY_TEMPLATES : EqualIgnoringCase(mood, key)}

HasTemplate(mood) == TemplateMoods(mood) # {}

\* the user's moods that have a template, in the user's order
MappedMoods == SelectSeq(user_request.moods, HasTemplate)

TemplateOf(mood) == ITINERARY_TEMPLATES[CHOOSE key \in TemplateMoods(mood) : TRUE]

\* the templates the claim lets build_itineraries attempt
AttemptedTemplates ==
    IF MappedMoods = <<>>
    THEN << <<<<"bar">>, <<"bar", "karaoke", "bowling">>, <<"bar">>>> >>
    ELSE [k \in 1..(IF Len(MappedMoods) < 2 THEN Len(MappedMoods) ELSE 2) |->
              TemplateOf(MappedMoods[k])]

\* C14: build_itineraries returns at most 2 itineraries, those of the
\* templates of the first two user moods that have a template, in the user's
\* order and whatever the letter case, or of the one default template
\* [bar, bar|karaoke|bowling, bar] when no mood has a template
C14_TemplatesOfFirstTwoMoods ==
    pc = "done" =>
        /\ Len(itineraries) <= 2
        /\ itineraries =
               IF Len(AttemptedTemplates) = 1
               THEN try_build_template(user_request, top, AttemptedTemplates[1])
               ELSE try_build_template(user_request, top, AttemptedTemplates[1])
                        \o try_build_template(user_request, top, AttemptedTemplates[2])

\* three moods have a template, the first two after an unmapped mood and in
\* another letter case, both give an itinerary, and the third would give one
C14_Witness ==
    /\ pc = "done"
    /\ Len(MappedMoods) >= 3
    /\ MappedMoods # user_request.moods
    /\ \E k \in 1..2 : MappedMoods[k] \notin DOMAIN ITINERARY_TEMPLATES
    /\ Len(itineraries) = 2
    /\ try_build_template(user_request, top, TemplateOf(MappedMoods[3])) # <<>>

\* the first-listed category, "other" for an item without categories
PrimaryCategory(r) ==
    IF Len(r.item.categories) = 0 THEN "other" ELSE r.item.categories[1]

\* how many of the first i items of s have the primary category of s[i]
NthOfCategory(s, i) ==
    Cardinality({j \in 1..i : PrimaryCategory(s[j]) = PrimaryCategory(s[i])})

\* C15: the diversity penalty, walking the list in its order before the
\* penalty, multiplies by 0.9, once, the score of every item that is the 3rd
\* or a later one of its primary category and leaves the other scores alone;
\* the list after it holds the same items
C15_PenaltyOnceFromThird ==
    [][(pc = "sorted" /\ pc' = "penalised") =>
          /\ Len(ranked') = Len(ranked)
          /\ \A i \in 1..Len(ranked) :
                 \E j \in 1..Len(ranked') :
                     ranked'[j] = [ranked[i] EXCEPT !.score =
                                       IF NthOfCategory(ranked, i) >= 3
                                       THEN FMul(@, PenaltyFactor) ELSE @]
          /\ \A j \in 1..Len(ranked') :
                 \E i \in 1..Len(ranked) : ranked'[j].item = ranked[i].item]_vars

\* after the penalty: an item without categories was penalised as the third
\* "other", behind an unpenalised item that lists "other" first, and the
\* penalty moved an item up
C15_Witness ==
    /\ pc = "penalised"
    /\ \E i \in 1..Len(ranked) :
           /\ ranked[i].item.categories = <<>>
           /\ Penalised(ranked[i])
           /\ \E j \in 1..(i - 1) :
                  /\ ranked[j].item.categories # <<>>
                  /\ PrimaryCategory(ranked[j]) = "other"
                  /\ ~Penalised(ranked[j])
    /\ \E i \in 1..(Len(ranked) - 1) :
           FLt(Score(ranked[i].components), Score(ranked[i + 1].components))

\* where the walk to stop i of an itinerary starts: the center for the first
\* stop, the stop before it otherwise
WalkOrigin(stops, i) ==
    IF i = 1 THEN CenterOf(user_request) ELSE ItemOf(stops[i - 1].id).location

\* C16: in every returned itinerary the walking time int(km x 12) from the
\* center to the first stop, and from each stop to the next, is at most
\* max_walk_minutes_between_stops
C16_LegsWithinMaxWalk ==
    pc = "done" =>
        \A n \in 1..Len(itineraries) :
            \A i \in 1..Len(itineraries[n].stops) :
                WalkMinutes(WalkOrigin(itineraries[n].stops, i),
                            ItemOf(itineraries[n].stops[i].id).location)
                    <= user_request.max_walk_minutes_between_stops

\* an itinerary with a leg that takes time, returned while a ranked bar too
\* far from every stop and from the center stayed out of it
C16_Witness ==
    /\ pc = "done"
    /\ \E n \in 1..Len(itineraries) :
           LET stops == itineraries[n].stops
           IN  /\ \E i \in 2..Len(stops) :
                      WalkMinutes(WalkOrigin(stops, i), ItemOf(stops[i].id).location) > 0
               /\ \E k \in 1..Len(top) :
                      /\ "bar" \in Range(top[k].item.categories)
                      /\ \A i \in 1..Len(stops) : stops[i].id # top[k].item.id
                      /\ WalkMinutes(CenterOf(user_request), top[k].item.location)
                             > user_request.max_walk_minutes_between_stops
                      /\ \A i \in 1..Len(stops) :
                             WalkMinutes(ItemOf(stops[i].id).location, top[k].item.location)
                                 > user_request.max_walk_minutes_between_stops

WindowStart == parse_time(user_request.start_time)

WindowEnd == WindowStart + user_request.duration_minutes

RECURSIVE SumCost(_, _)
\* the sum of cost_pp over the first n stops
SumCost(stops, n) ==
    IF n = 0 THEN FZero ELSE FAdd(SumCost(stops, n - 1), stops[n].cost_pp)

\* the positions of the stops made before template slot j (0-based)
EarlierStops(stops, j) == {q \in 1..Len(stops) : stops[q].slot < j}

\* where the builder stands at slot j: the last stop made before it, else
\* the center
StandingAt(stops, j) ==
    IF EarlierStops(stops, j) = {} THEN CenterOf(user_request)
    ELSE ItemOf(stops[CHOOSE q \in EarlierStops(stops, j) :
                          \A o \in EarlierStops(stops, j) : o <= q].id).location

\* the positions in the ranked list that slot j of template t may take: not
\* a stop already, a category among the slot's alternatives, within the
\* maximum walk of where the builder stands
Qualifying(t, stops, j) ==
    {k \in 1..Len(top) :
        /\ \A q \in EarlierStops(stops, j) : stops[q].id # top[k].item.id
        /\ \E c \in Range(t[j + 1]) : c \in Range(top[k].item.categories)
        /\ WalkMinutes(StandingAt(stops, j), top[k].item.location)
               <= user_request.max_walk_minutes_between_stops}

\* the stops fill slots of template t in the order of the slots, each with
\* the highest-ranked item that qualifies for its slot
GreedyFor(t, stops) ==
    \A p \in 1..Len(stops) :
        /\ stops[p].slot \in 0..(Len(t) - 1)
        /\ p > 1 => stops[p - 1].slot < stops[p].slot
        /\ \E k \in Qualifying(t, stops, stops[p].slot) :
               /\ \A j \in Qualifying(t, stops, stops[p].slot) : k <= j
               /\ stops[p].id = top[k].item.id

\* C17: in every returned itinerary each stop is the highest-ranked item
\* that is not used yet, has a category among the alternatives of the slot
\* it fills and is within the maximum walk of the previous location; no
\* higher-ranked such item is passed over
C17_GreedyHighestRanked ==
    pc = "done" =>
        \A n \in 1..Len(itineraries) :
            \E m \in 1..Len(AttemptedTemplates) :
                GreedyFor(AttemptedTemplates[m], itineraries[n].stops)

\* a returned itinerary with a stop for whose slot several items qualified
\* and the best-ranked item of the list did not
C17_Witness ==
    /\ pc = "done"
    /\ \E n \in 1..Len(itineraries) :
           \E m \in 1..Len(AttemptedTemplates) :
               /\ GreedyFor(AttemptedTemplates[m], itineraries[n].stops)
               /\ \E p \in 1..Len(itineraries[n].stops) :
                      LET q == Qualifying(AttemptedTemplates[m], itineraries[n].stops,
                                          itineraries[n].stops[p].slot)
                      IN  Cardinality(q) >= 2 /\ 1 \notin q

\* the walk to stop p as the builder counts it: none for a stop in slot 0
LegOf(stops, p) ==
    IF stops[p].slot > 0
    THEN WalkMinutes(WalkOrigin(stops, p), ItemOf(stops[p].id).location)
    ELSE 0

RECURSIVE SumLegs(_, _)
SumLegs(stops, n) == IF n = 0 THEN 0 ELSE SumLegs(stops, n - 1) + LegOf(stops, n)

\* the clock when the builder sets out for stop p
ClockBefore(stops, p) == IF p = 1 THEN WindowStart ELSE stops[p - 1].depart_min

\* the itinerary is what the builder makes of template t when a slot for
\* which no item qualifies changes nothing: the slots without a stop are
\* those for which nothing qualifies where the builder stands, each stop is
\* reached from the stop before it on the clock that stop left, and the
\* totals are those of the stops
UntouchedBySkips(t, itin) ==
    /\ \A j \in 0..(Len(t) - 1) :
           (\A p \in 1..Len(itin.stops) : itin.stops[p].slot # j)
               <=> Qualifying(t, itin.stops, j) = {}
    /\ \A p \in 1..Len(itin.stops) :
           /\ itin.stops[p].slot \in 0..(Len(t) - 1)
           /\ p > 1 => itin.stops[p - 1].slot < itin.stops[p].slot
           /\ itin.stops[p].arrive_min =
                  IF ItemOf(itin.stops[p].id).type = "event"
                         /\ ItemOf(itin.stops[p].id).start.present
                  THEN ItemOf(itin.stops[p].id).start.min
                  ELSE ClockBefore(itin.stops, p) + LegOf(itin.stops, p)
    /\ \A p, q \in 1..Len(itin.stops) : itin.stops[p].id = itin.stops[q].id => p = q
    /\ itin.total_walk_minutes = SumLegs(itin.stops, Len(itin.stops))
    /\ itin.total_cost_pp = FRound(SumCost(itin.stops, Len(itin.stops)), 2)

\* C18: when no ranked item qualifies for a slot the slot is skipped and the
\* builder (clock, last location, used ids, cost and walk totals, stops) is
\* left as it was; the slots after it are still attempted
C18_SkippedSlotLeavesBuilder ==
    pc = "done" =>
        \A n \in 1..Len(itineraries) :
            \E m \in 1..Len(AttemptedTemplates) :
                UntouchedBySkips(AttemptedTemplates[m], itineraries[n])

\* a returned itinerary whose template had its middle slot skipped between
\* two stops, the second of them a venue reached by a walk
C18_Witness ==
    /\ pc = "done"
    /\ \E n \in 1..Len(itineraries) :
           /\ Len(itineraries[n].stops) = 2
           /\ itineraries[n].stops[1].slot = 0
           /\ itineraries[n].stops[2].slot = 2
           /\ ItemOf(itineraries[n].stops[2].id).type = "venue"
           /\ LegOf(itineraries[n].stops, 2) > 0

HasWeekdayEntry(c) == get_weekday(user_request.date) \in DOMAIN c.open_hours

\* the open-hour blocks of a venue for the weekday of the request
BlocksOf(c) == IF HasWeekdayEntry(c) THEN c.open_hours[get_weekday(user_request.date)] ELSE <<>>

\* a block of the weekday, closing time taken 1440 later when it is before
\* the opening time, overlaps the window: start1 < end2 and start2 < end1
SomeBlockOverlaps(c) ==
    \E k \in 1..Len(BlocksOf(c)) :
        LET open == BlocksOf(c)[k][1]
            close == BlocksOf(c)[k][2]
            end == IF close < open THEN close + 1440 ELSE close
        IN  WindowStart < end /\ open < WindowEnd

\* a venue that the radius filter and the budget filter keep
VenuePastOtherFilters(c) ==
    /\ c.type = "venue"
    /\ soft_radius_filter_keeps(c, user_request.preferred_radius_km)
    /\ FLe(estimate_cost_pp(c), FMul(Gbp(user_request.budget_per_person_gbp), FInt(2)))

Kept(c) == \E k \in 1..Len(ranked) : ranked[k].item = c

\* C19 as stated: a venue is time-compatible exactly when it has no
\* open-hour block for the weekday of the request or one of that weekday's
\* blocks overlaps the window
C19_OpenWithoutBlocks ==
    pc = "sorted" =>
        \A n \in 1..Len(candidates) :
            VenuePastOtherFilters(candidates[n]) =>
                (Kept(candidates[n])
                    <=> (BlocksOf(candidates[n]) = <<>> \/ SomeBlockOverlaps(candidates[n])))

\* C19 amended: a venue is time-compatible exactly when its open hours have
\* no entry for the weekday of the request or one of that weekday's blocks
\* overlaps the window; an entry with an empty block list is a closed day
C19_OpenWithoutEntry ==
    pc = "sorted" =>
        \A n \in 1..Len(candidates) :
            VenuePastOtherFilters(candidates[n]) =>
                (Kept(candidates[n])
                    <=> (~HasWeekdayEntry(candidates[n]) \/ SomeBlockOverlaps(candidates[n])))

\* after the filter: a venue with hours for another weekday only was kept, a
\* venue whose entry for the weekday is an empty list was dropped
C19_Witness ==
    /\ pc = "sorted"
    /\ \E n \in 1..Len(candidates) :
           /\ VenuePastOtherFilters(candidates[n])
           /\ DOMAIN candidates[n].open_hours # {}
           /\ ~HasWeekdayEntry(candidates[n])
           /\ Kept(candidates[n])
    /\ \E n \in 1..Len(candidates) :
           /\ VenuePastOtherFilters(candidates[n])
           /\ HasWeekdayEntry(candidates[n])
           /\ BlocksOf(candidates[n]) = <<>>
           /\ ~Kept(candidates[n])

\* C20: the rating component of a ranked item is rating/5 x 0.85 when its
\* review count is below 30, 0 included, rating/5 otherwise, and 0.6 when
\* the rating is unknown
C20_RatingDiscountBelowThirty ==
    Returned =>
        \A i \in 1..Len(top) :
            LET rating == top[i].item.rating
                reviews == top[i].item.reviews
            IN  top[i].components.rating =
                    IF rating = NoneVal THEN F0_6
                    ELSE IF reviews # NoneVal /\ reviews < 30
                         THEN FMul(FDiv(Stars(rating), FInt(5)), F0_85)
                         ELSE FDiv(Stars(rating), FInt(5))

\* the place of a kind of reason in the fixed order
KindRank(kind) ==
    CASE kind = "fits mood" -> 1
      [] kind \in {"under budget by", "within budget"} -> 2
      [] kind = "high rating" -> 3
      [] kind = "indoor during rain" -> 4
      [] kind = "minutes walk from center" -> 5

\* the five conditions of build_reasons hold for the ranked item r
AllFiveApply(r) ==
    /\ FLt(F0_7, r.components.mood)
    /\ TwiceCostMills(r.item) * 10 <= user_request.budget_per_person_gbp * 24
    /\ r.item.rating # NoneVal /\ r.item.rating >= 45
    /\ r.components.weather = FOne /\ r.item.indoor
    /\ r.item.distance < 10

\* C21: the reasons of a ranked item are at most 4, in the order mood match,
\* budget note, high rating, indoor during rain, short walk, with at most one
\* budget note ("under budget" when cost < budget, else "within budget" when
\* cost <= 1.2 x budget); when all five apply the short-walk note is dropped
C21_ReasonsOrderedAndCapped ==
    Returned =>
        \A i \in 1..Len(top) :
            LET rs == top[i].reasons
                twice_cost == TwiceCostMills(top[i].item)
                budget == user_request.budget_per_person_gbp
            IN  /\ Len(rs) <= 4
                /\ \A k \in 1..(Len(rs) - 1) :
                       KindRank(rs[k].kind) < KindRank(rs[k + 1].kind)
                /\ HasReason(top[i], "under budget by") <=> twice_cost < 2 * budget
                /\ HasReason(top[i], "within budget")
                       <=> (2 * budget <= twice_cost /\ twice_cost * 10 <= budget * 24)
                /\ AllFiveApply(top[i]) =>
                       /\ Len(rs) = 4
                       /\ ~HasReason(top[i], "minutes walk from center")

\* max(0, 1 - min(d/r, 1)), less 0.2 and floored at 0 when d > r
DistanceComponent(d, r) ==
    LET base == IF d >= r THEN FZero ELSE FSub(FOne, FDiv(Km(d), Km(r)))
    IN  IF d > r
        THEN (IF FLt(base, F0_2) THEN FZero ELSE FSub(base, F0_2))
        ELSE base

\* the distance components of the ranked items follow the formula: 1 at
\* d = 0, 0 at d = r, non-increasing in d
DistanceByFormula ==
    /\ \A i \in 1..Len(top) :
           /\ top[i].components.distance
                  = DistanceComponent(top[i].item.distance, user_request.preferred_radius_km)
           /\ top[i].item.distance = 0 => top[i].components.distance = FOne
           /\ top[i].item.distance = user_request.preferred_radius_km
                  => top[i].components.distance = FZero
    /\ \A i, j \in 1..Len(top) :
           top[i].item.distance <= top[j].item.distance
               => FLe(top[j].components.distance, top[i].components.distance)

\* C22 as stated: the distance component follows the formula, and a
\* candidate in the soft band r < d <= 1.5r has a strictly lower distance
\* component than a candidate with d <= r
C22_SoftBandStrictlyLower ==
    Returned =>
        /\ DistanceByFormula
        /\ \A i, j \in 1..Len(top) :
               (/\ top[i].item.distance > user_request.preferred_radius_km
                /\ top[j].item.distance <= user_request.preferred_radius_km)
                   => FLt(top[i].components.distance, top[j].components.distance)

\* C22 amended: the distance component follows the formula, and a candidate
\* in the soft band has distance component 0, strictly lower than that of a
\* candidate with d < r and equal to that of a candidate with d = r
C22_SoftBandZero ==
    Returned =>
        /\ DistanceByFormula
        /\ \A i, j \in 1..Len(top) :
               top[i].item.distance > user_request.preferred_radius_km =>
                   /\ top[i].components.distance = FZero
                   /\ top[j].item.distance < user_request.preferred_radius_km
                          => FLt(top[i].components.distance, top[j].components.distance)
                   /\ top[j].item.distance = user_request.preferred_radius_km
                          => top[i].components.distance = top[j].components.distance

\* a ranked list with a candidate at distance 0, one at the preferred radius
\* and one in the soft band
C22_Witness ==
    /\ Returned
    /\ \E i, j, k \in 1..Len(top) :
           /\ top[i].item.distance = 0
           /\ top[j].item.distance = user_request.preferred_radius_km
           /\ top[k].item.distance > user_request.preferred_radius_km
           /\ top[k].item.distance * 10 <= user_request.preferred_radius_km * 15

\* the categories of c meet the category set of a requested mood
MeetsRequestedMood(c) ==
    \E k \in 1..Len(user_request.moods) :
        /\ MoodKey(user_request.moods[k]) \in MoodKeys
        /\ Range(c.categories) \cap MOOD_CATEGORY_MAP[MoodKey(user_request.moods[k])] # {}

\* C23: with at least one requested mood the mood component is never below
\* 0.3, so an item whose categories meet a requested mood's category set
\* never has a lower mood component than an item that meets none
C23_MoodFloor ==
    (Returned /\ user_request.moods # <<>>) =>
        /\ \A i \in 1..Len(top) : FLe(F0_3, top[i].components.mood)
        /\ \A i, j \in 1..Len(top) :
               (MeetsRequestedMood(top[i].item) /\ ~MeetsRequestedMood(top[j].item))
                   => FLe(top[j].components.mood, top[i].components.mood)

\* C24: the reason "indoor during rain" is on a ranked item only if a
\* weather snapshot was given and its record for the start hour is
\* rain-flagged
C24_RainReasonOnlyInRain ==
    Returned =>
        \A i \in 1..Len(top) :
            HasReason(top[i], "indoor during rain") => RainFlaggedAtStart

\* C25: in every returned itinerary each stop's arrival, in minutes since
\* midnight of the request date, is not earlier than the departure of the
\* stop before it
C25_ClockNeverBackwards ==
    pc = "done" =>
        \A n \in 1..Len(itineraries) :
            \A i \in 2..Len(itineraries[n].stops) :
                itineraries[n].stops[i].arrive_min
                    >= itineraries[n].stops[i - 1].depart_min

HasTag(itin, tag) == \E k \in 1..Len(itin.reasons) : itin.reasons[k] = tag

\* C26: every returned itinerary carries the tag "short transfers", its
\* total_walk_minutes being at most max_walk_minutes_between_stops times the
\* number of its stops
C26_AlwaysShortTransfers ==
    pc = "done" =>
        \A n \in 1..Len(itineraries) :
            /\ HasTag(itineraries[n], "short transfers")
            /\ itineraries[n].total_walk_minutes
                   <= user_request.max_walk_minutes_between_stops * Len(itineraries[n].stops)

\* an itinerary that walked longer in total than the limit of one leg
C26_Witness ==
    /\ pc = "done"
    /\ \E n \in 1..Len(itineraries) :
           /\ itineraries[n].total_walk_minutes > user_request.max_walk_minutes_between_stops
           /\ HasTag(itineraries[n], "short transfers")

\* C27: an itinerary of 2 or 3 stops carries the tag "mostly indoor" if and
\* only if every stop is flagged indoor
C27_MostlyIndoorMeansAll ==
    pc = "done" =>
        \A n \in 1..Len(itineraries) :
            HasTag(itineraries[n], "mostly indoor")
                <=> \A i \in 1..Len(itineraries[n].stops) :
                        ItemOf(itineraries[n].stops[i].id).indoor

\* an itinerary of 3 stops, one of them not indoor, without the tag
C27_Witness ==
    /\ pc = "done"
    /\ \E n \in 1..Len(itineraries) :
           LET stops == itineraries[n].stops
           IN  /\ Len(stops) = 3
               /\ Cardinality({i \in 1..3 : ItemOf(stops[i].id).indoor}) = 2
               /\ ~HasTag(itineraries[n], "mostly indoor")

\* C28: in every returned itinerary the last stop has walk_minutes_to_next
\* 0 and every earlier stop has walk_minutes_to_next 7
C28_WalkToNextSevenThenZero ==
    pc = "done" =>
        \A n \in 1..Len(itineraries) :
            LET stops == itineraries[n].stops
            IN  /\ stops[Len(stops)].walk_minutes_to_next = 0
                /\ \A i \in 1..(Len(stops) - 1) : stops[i].walk_minutes_to_next = 7

\* the orders in which n candidates can be handed over
Orders(n) == {f \in [1..n -> 1..n] : \A i, j \in 1..n : f[i] = f[j] => i = j}

ItemsAndScores(s) == [k \in 1..Len(s) |-> [item |-> s[k].item, score |-> s[k].score]]

\* the score of the first sort, before the penalty
FirstScore(r) == Score(r.components)

\* C29 as stated: when no two surviving candidates agree on (score, review
\* count, distance, name), rank_activities returns the same items with the
\* same scores, in the same order, for every order of the candidate list
C29_RankingIgnoresInputOrder ==
    (/\ pc = "ranked"
     /\ \A i, j \in 1..Len(ranked) :
            (/\ FirstScore(ranked[i]) = FirstScore(ranked[j])
             /\ ranked[i].item.reviews = ranked[j].item.reviews
             /\ ranked[i].item.distance = ranked[j].item.distance
             /\ ranked[i].item.name = ranked[j].item.name) => i = j) =>
        \A f \in Orders(Len(candidates)) :
            ItemsAndScores(rank_activities(user_request,
                                           [k \in 1..Len(candidates) |-> candidates[f[k]]],
                                           weather_snapshot))
                = ItemsAndScores(top)

\* C29 amended: when no two surviving candidates agree on (score, review
\* count with a missing count taken as 0, distance, name), rank_activities
\* returns the same items with the same scores, in the same order, for
\* every order of the candidate list
C29_RankingIgnoresOrderOfDistinctKeys ==
    (/\ pc = "ranked"
     /\ \A i, j \in 1..Len(ranked) :
            (/\ FirstScore(ranked[i]) = FirstScore(ranked[j])
             /\ ReviewsOrZero(ranked[i]) = ReviewsOrZero(ranked[j])
             /\ ranked[i].item.distance = ranked[j].item.distance
             /\ ranked[i].item.name = ranked[j].item.name) => i = j) =>
        \A f \in Orders(Len(candidates)) :
            ItemsAndScores(rank_activities(user_request,
                                           [k \in 1..Len(candidates) |-> candidates[f[k]]],
                                           weather_snapshot))
                = ItemsAndScores(top)

\* a returned list of three or more in which two neighbours tie on score,
\* review count and distance and differ in the name, handed over in another
\* order than returned
C29_Witness ==
    /\ pc = "ranked"
    /\ Len(top) >= 3
    /\ \A i, j \in 1..Len(ranked) :
           (/\ FirstScore(ranked[i]) = FirstScore(ranked[j])
            /\ ReviewsOrZero(ranked[i]) = ReviewsOrZero(ranked[j])
            /\ ranked[i].item.distance = ranked[j].item.distance
            /\ ranked[i].item.name = ranked[j].item.name) => i = j
    /\ \E i \in 1..(Len(top) - 1) :
           /\ top[i].score = top[i + 1].score
           /\ ReviewsOrZero(top[i]) = ReviewsOrZero(top[i + 1])
           /\ top[i].item.distance = top[i + 1].item.distance
    /\ \E i \in 1..Len(top) : candidates[i] # top[i].item

\* C30: every stop of every itinerary of a response has the id of an item
\* of the ranked list as truncated to max_results and that item's estimated
\* per-person cost as its cost_pp, and the itinerary's total_cost_pp is the
\* sum of its stops' cost_pp rounded to 2 decimals
C30_StopsAreRankedEntries ==
    pc = "done" =>
        \A n \in 1..Len(itineraries) :
            LET stops == itineraries[n].stops
            IN  /\ \A i \in 1..Len(stops) :
                       \E k \in 1..Len(top) :
                           /\ top[k].item.id = stops[i].id
                           /\ top[k].estimated_cost_pp = stops[i].cost_pp
                /\ itineraries[n].total_cost_pp = FRound(SumCost(stops, Len(stops)), 2)

\* an itinerary built from three or more ranked items whose total is
\* another number than the sum of its stops' costs before the rounding
C30_Witness ==
    /\ pc = "done"
    /\ Len(top) >= 3
    /\ \E n \in 1..Len(itineraries) :
           itineraries[n].total_cost_pp
               # SumCost(itineraries[n].stops, Len(itineraries[n].stops))

====
